---- MODULE Spec2Model ----
(***************************************************************************)
(* niflheim-x, TypeScript package: the conversation orchestration engine.  *)
(*                                                                         *)
(*   Agent (simple-agent.ts)  chat(), stream(), getMessages(), memory      *)
(*   ToolRegistry (tools.ts)  registerTool(), executeTool() and its race   *)
(*   BaseLLM / OpenAILLM / AnthropicLLM (llm/base.ts)  validateMessages(), *)
(*       the inbound mapping of a completed response                       *)
(*                                                                         *)
(*       the inbound mapping of a completed response, the stream parsers   *)
(*   SimpleDictMemory (simple-agent.ts), DictMemory (memory.ts)            *)
(*                                                                         *)
(* Twelve specifications share the module:                                 *)
(*   Spec         one Agent used through chat()                            *)
(*   StreamSpec   one Agent used through stream()                          *)
(*   ToolSpec     ToolRegistry.executeTool, one step per event of the race *)
(*   ToolLiveSpec the same, with the event loop making progress            *)
(*   AdapterSpec  an adapter's chat()/stream() called with any message list*)
(*   BodySpec     an adapter called with well-formed conversations         *)
(*   MemorySpec   the memory stores and the Agent's bounded read           *)
(*   DictSpec     a DictMemory read through getMessages                    *)
(*   ParserSpec   an adapter's stream parser reading one response body     *)
(*   ReaderSpec   the same parser, with every way its reading can end      *)
(*   PairSpec     two Agents, each with its own memory, side by side       *)
(*   RegistrySpec a ToolRegistry on its own: registration and export       *)
(***************************************************************************)
EXTENDS Integers, Sequences, FiniteSets, TLC

(***************************************************************************)
(* Bounds of the model.                                                    *)
(***************************************************************************)
\* stored messages of the session
MaxHistory == 6
\* tool calls carried by one model response
MaxCalls == 2
\* chunks the adapters yield in one session
MaxChunks == 3
\* system messages the caller adds through Agent.addMessage
MaxSystem == 1
\* messages of a list passed to an adapter directly
MaxWireMessages == 2
\* messages of a well-formed conversation passed to an adapter
MaxBodyMessages == 3
\* messages given to the memory stores used on their own
MaxAppends == 3
\* largest maxMemoryMessages of an Agent reading such a store
MaxWindow == 2
\* largest limit passed to DictMemory.getMessages
MaxLimit == 2
\* lines of one streamed response body
MaxLines == 3
\* handlers of timed-out calls still running when a later call starts
MaxLateHandlers == 2
\* timers of earlier executeTool calls still waiting to fire
MaxStaleTimers == 2
\* exchanges of each of two Agents running side by side
MaxPairTurns == 2

(***************************************************************************)
(* JavaScript values.  A string is a TLA+ string; undefined and null are   *)
(* two strings no program value equals.                                    *)
(***************************************************************************)
Undefined == "<undefined>"
Null == "<null>"
NoError == "<no error>"

\* !v, for v a string, undefined or null
Falsy(v) == v \in {"", Undefined, Null}

\* a || b
OrElse(a, b) == IF Falsy(a) THEN b ELSE a

Min(a, b) == IF a < b THEN a ELSE b
Max(a, b) == IF a > b THEN a ELSE b

\* Array.prototype.slice(k): from index k, counted from the end when k < 0
JsSlice(s, k) ==
    LET start == IF k < 0 THEN Max(Len(s) + k, 0) ELSE Min(k, Len(s))
    IN  SubSeq(s, start + 1, Len(s))

\* JSON.stringify of a string value or of undefined
JSONstringify(v) == IF v = Undefined THEN Undefined ELSE "\"" \o v \o "\""

\* the argument texts a provider sends with a tool call
GoodArguments == "{\"city\":\"Tokyo\"}"
BadArguments == "{\"city\":"
ArgumentTexts == {GoodArguments, BadArguments}

\* JSON.parse: the parsed object as its set of key/value pairs, or a SyntaxError
JSONparse(text) ==
    IF text = GoodArguments
    THEN [ok |-> TRUE, value |-> {<<"city", "Tokyo">>}]
    ELSE [ok |-> FALSE, value |-> {}]

(***************************************************************************)
(* types.ts: Message, ToolCall, ToolResult.                                *)
(***************************************************************************)
System == "system"
User == "user"
Assistant == "assistant"
Tool == "tool"

\* a Message; toolCalls <<>> and toolCallId Undefined when the field is absent
Message(role, content, toolCalls, toolCallId) ==
    [role |-> role, content |-> content, toolCalls |-> toolCalls,
     toolCallId |-> toolCallId]

ToolCall(name, arguments, callId) ==
    [name |-> name, arguments |-> arguments, callId |-> callId]

\* a ToolResult: result or error is Undefined when the field is absent
ToolResult(callId, result, error) ==
    [callId |-> callId, result |-> result, error |-> error]

(***************************************************************************)
(* SimpleDictMemory (simple-agent.ts).                                     *)
(***************************************************************************)
DefaultMaxMessages == 1000

\* SimpleDictMemory.addMessage: push, then keep the last maxMessages
addMessage(messages, message, maxMessages) ==
    LET pushed == Append(messages, message)
    IN  IF Len(pushed) > maxMessages THEN JsSlice(pushed, -maxMessages) ELSE pushed

(***************************************************************************)
(* Agent.getMessages and the outbound list of a first request.             *)
(***************************************************************************)
DefaultMaxMemoryMessages == 50
DefaultSystemPrompt == "You are a helpful AI assistant."

IsSystem(m) == m.role = System

HasSystem(messages) == \E i \in 1..Len(messages) : IsSystem(messages[i])

SystemCount(messages) == Cardinality({i \in 1..Len(messages) : IsSystem(messages[i])})

\* Agent.getMessages: the stored messages, trimmed to the configured window
getMessages(stored, maxMemoryMessages) ==
    IF Len(stored) > maxMemoryMessages
    THEN LET systemMessages == SelectSeq(stored, IsSystem)
             otherMessages == SelectSeq(stored, LAMBDA m : ~IsSystem(m))
             recentMessages ==
                 JsSlice(otherMessages, -maxMemoryMessages + Len(systemMessages))
         IN  systemMessages \o recentMessages
    ELSE stored

\* chat()/stream(): getMessages(), then the system prompt unshifted if none is present
prepareMessages(stored, maxMemoryMessages, systemPrompt) ==
    LET messages == getMessages(stored, maxMemoryMessages)
    IN  IF ~HasSystem(messages)
        THEN <<Message(System, systemPrompt, <<>>, Undefined)>> \o messages
        ELSE messages

\* a store whose getMessages hands out its own array: the unshift reaches it
\* whenever Agent.getMessages passes that array on
storeAfterPrepareShared(stored, maxMemoryMessages, systemPrompt) ==
    IF Len(stored) <= maxMemoryMessages
    THEN prepareMessages(stored, maxMemoryMessages, systemPrompt)
    ELSE stored

\* the store once chat()/stream() has prepared its request: SimpleDictMemory
\* hands out a copy of its array, [...this.messages], and the unshift of the
\* system prompt acts on that copy
storeAfterPrepare(stored, maxMemoryMessages, systemPrompt) == stored

\* the follow-up request of chat(): getMessages() as it is
followupMessages(stored, maxMemoryMessages) == getMessages(stored, maxMemoryMessages)

(***************************************************************************)
(* BaseLLM.validateMessages: the error it throws, or NoError.              *)
(***************************************************************************)
EmptyMessagesError == "Messages cannot be empty"
RoleContentError == "Each message must have role and content"

\* a validation that looks at the role of each message only
validateMessagesRoleOnly(messages) ==
    IF Len(messages) = 0
    THEN EmptyMessagesError
    ELSE IF \E i \in 1..Len(messages) : Falsy(messages[i].role)
         THEN RoleContentError
         ELSE NoError

validateMessages(messages) ==
    IF Len(messages) = 0
    THEN EmptyMessagesError
    ELSE IF \E i \in 1..Len(messages) :
                Falsy(messages[i].role) \/ Falsy(messages[i].content)
         THEN RoleContentError
         ELSE NoError

(***************************************************************************)
(* ToolRegistry (tools.ts).  The registry is the Map's entries in          *)
(* insertion order.                                                        *)
(***************************************************************************)
DefaultToolTimeout == 30
MsPerSecond == 1000

ToolEntry(name, description, timeout) ==
    [name |-> name, description |-> description, parameters |-> "object",
     timeout |-> timeout]

\* createTool(config): timeout: config.timeout || 30.0
createTool(config) ==
    ToolEntry(config.name, config.description,
              IF "timeout" \in DOMAIN config /\ config.timeout # 0
              THEN config.timeout
              ELSE DefaultToolTimeout)

\* examples/simple-agent.ts: createTool without a timeout
WeatherConfig == [name |-> "get_weather", description |-> "Get weather for a location"]
WeatherTool == createTool(WeatherConfig)

\* the configurations an application passes to createTool: no timeout, 0, one second
ToolConfigs ==
    {WeatherConfig}
    \cup {[name |-> "get_weather", description |-> "Get weather for a location",
            timeout |-> t] : t \in {0, 1}}

\* the tools a caller registers; no tool is ever named doThing
ToolCatalog == {WeatherTool}
ToolNames == {"get_weather", "doThing"}

\* an array push in place of Map.set
registerToolAppends(tools, tool) == Append(tools, tool)

\* Map.set: a present key keeps its place and takes the new value
registerTool(tools, tool) ==
    IF \E i \in 1..Len(tools) : tools[i].name = tool.name
    THEN [i \in 1..Len(tools) |-> IF tools[i].name = tool.name THEN tool ELSE tools[i]]
    ELSE Append(tools, tool)

\* Map.get: <<tool>>, or <<>> for undefined
getTool(tools, name) == SelectSeq(tools, LAMBDA t : t.name = name)

\* Array.from(this.tools.values())
listTools(tools) == tools

getOpenAITools(tools) ==
    [i \in 1..Len(tools) |->
        [type |-> "function",
         function |-> [name |-> tools[i].name,
                       description |-> tools[i].description,
                       parameters |-> tools[i].parameters]]]

\* the flat form with the description left out
getAnthropicToolsNamesOnly(tools) ==
    [i \in 1..Len(tools) |->
        [name |-> tools[i].name, description |-> "", input_schema |-> tools[i].parameters]]

getAnthropicTools(tools) ==
    [i \in 1..Len(tools) |->
        [name |-> tools[i].name,
         description |-> tools[i].description,
         input_schema |-> tools[i].parameters]]

(***************************************************************************)
(* What a handler does, as the caller of executeTool meets it: it runs     *)
(* synchronously (returns a plain value or throws, blocking the event loop *)
(* for dur ms) or returns a promise that fulfils or rejects after dur ms,  *)
(* or never settles.                                                       *)
(***************************************************************************)
Durations ==
    {MsPerSecond, DefaultToolTimeout * MsPerSecond, 2 * DefaultToolTimeout * MsPerSecond}
ReturnValues == {"Sunny, 22C", Undefined}
ThrownMessages == {"boom", ""}

Behaviour(sync, dur, settles, value) ==
    [sync |-> sync, dur |-> dur, settles |-> settles, value |-> value]

Behaviours ==
    {Behaviour(s, d, "returns", v) : s \in BOOLEAN, d \in Durations, v \in ReturnValues}
    \cup {Behaviour(s, d, "throws", v) : s \in BOOLEAN, d \in Durations, v \in ThrownMessages}
    \cup {Behaviour(FALSE, 0, "never", Undefined)}

TimeoutError == "Tool execution timeout"
NotFoundErrorUnnamed(name) == "Tool not found"
NotFoundError(name) == "Tool '" \o name \o "' not found"

\* the setTimeout delay of the timeout promise
timerDelay(tool) == tool.timeout * MsPerSecond

\* Promise.race([executionPromise, timeoutPromise]): TRUE when the handler's
\* promise settles first.  A synchronous handler has settled before any timer
\* callback can run; when both settle at the same instant either may be first.
handlerWins(tool, beh, tie) ==
    \/ beh.sync
    \/ /\ beh.settles # "never"
       /\ \/ beh.dur < timerDelay(tool)
          \/ beh.dur = timerDelay(tool) /\ tie = "handler"

\* ToolRegistry.executeTool
executeTool(tools, toolCall, beh, tie) ==
    LET found == getTool(tools, toolCall.name)
    IN  IF Len(found) = 0
        THEN ToolResult(toolCall.callId, Undefined, NotFoundError(toolCall.name))
        ELSE IF handlerWins(found[1], beh, tie)
             THEN IF beh.settles = "returns"
                  THEN ToolResult(toolCall.callId, beh.value, Undefined)
                  ELSE ToolResult(toolCall.callId, Undefined, beh.value)
             ELSE ToolResult(toolCall.callId, Undefined, TimeoutError)

(***************************************************************************)
(* The completed response of a provider and the adapters' inbound mapping  *)
(* (llm/base.ts, OpenAILLM.chat and AnthropicLLM.chat).                    *)
(***************************************************************************)
OpenAI == "openai"
Anthropic == "anthropic"

CallId(i) == "call_" \o ToString(i)

\* an element of choices[0].message.tool_calls
OpenAIToolCall(i, name, arguments) ==
    [id |-> CallId(i), type |-> "function",
     function |-> [name |-> name, arguments |-> arguments]]

\* a tool_use block and a text block of an Anthropic response
ToolUseBlock(i, name) ==
    [type |-> "tool_use", id |-> CallId(i), name |-> name,
     input |-> {<<"city", "Tokyo">>}]
TextBlock(text) == [type |-> "text", text |-> text]

CallVariants ==
    {[name |-> "get_weather", arguments |-> GoodArguments],
     [name |-> "get_weather", arguments |-> BadArguments],
     [name |-> "doThing", arguments |-> GoodArguments]}

OpenAICallSeqs(n) ==
    UNION {{[i \in 1..k |-> OpenAIToolCall(i, f[i].name, f[i].arguments)] :
                f \in [1..k -> CallVariants]} : k \in 0..n}

ToolUseSeqs(n) ==
    UNION {{[i \in 1..k |-> ToolUseBlock(i, f[i])] : f \in [1..k -> ToolNames]} :
                k \in 0..n}

\* the usage object of a response body: <<usage>>, or <<>> when the body has none
WireUsages(llm) ==
    IF llm = OpenAI
    THEN {<<>>, <<[prompt_tokens |-> 3, completion_tokens |-> 2, total_tokens |-> 5]>>}
    ELSE {<<>>, <<[input_tokens |-> 3, output_tokens |-> 2]>>}

\* the bodies a provider answers a chat request with, carrying at most n tool calls
WireResponses(llm, n) ==
    IF llm = OpenAI
    THEN {[content |-> c, tool_calls |-> calls, usage |-> u] :
                c \in {Null, "Hello"}, calls \in OpenAICallSeqs(n), u \in WireUsages(llm)}
    ELSE {[content |-> text \o uses, usage |-> u] :
                text \in {<<>>, <<TextBlock("Hello")>>}, uses \in ToolUseSeqs(n),
                u \in WireUsages(llm)}

\* OpenAILLM.chat, the returned LLMResponse
OpenAIResponse(wire) ==
    [content |-> OrElse(wire.content, ""),
     usage |-> IF wire.usage # <<>>
               THEN <<[promptTokens |-> wire.usage[1].prompt_tokens,
                       completionTokens |-> wire.usage[1].completion_tokens,
                       totalTokens |-> wire.usage[1].total_tokens]>>
               ELSE <<>>,
     toolCalls |-> wire.tool_calls]

\* AnthropicLLM.chat, the returned LLMResponse
AnthropicResponse(wire) ==
    [content |->
        IF Len(wire.content) > 0 /\ "text" \in DOMAIN wire.content[1]
        THEN OrElse(wire.content[1].text, "")
        ELSE "",
     usage |-> IF wire.usage # <<>>
               THEN <<[promptTokens |-> wire.usage[1].input_tokens,
                       completionTokens |-> wire.usage[1].output_tokens,
                       totalTokens |-> wire.usage[1].input_tokens
                                       + wire.usage[1].output_tokens]>>
               ELSE <<>>,
     toolCalls |-> SelectSeq(wire.content, LAMBDA c : c.type = "tool_use")]

chatResponse(llm, wire) ==
    IF llm = OpenAI THEN OpenAIResponse(wire) ELSE AnthropicResponse(wire)

\* makeRequest / stream(): the error thrown for a non-2xx status
apiError(llm, status, body) ==
    (IF llm = OpenAI THEN "OpenAI" ELSE "Anthropic")
    \o " API error: " \o ToString(status) \o " - " \o body

\* what an adapter's request fails with after validation: a non-2xx status
\* or a transport failure
AdapterErrors(llm) == {apiError(llm, 500, "overloaded"), "fetch failed"}

\* makeRequest / stream(): the fetch calls made once the request has failed;
\* the error is thrown and nothing calls fetch again
retriedOnce(fetches) == fetches + 1
afterFailure(fetches) == fetches

(***************************************************************************)
(* Agent.convertToolCalls: the ToolCalls, or the error the map throws at   *)
(* the first element it cannot convert.                                    *)
(***************************************************************************)
TypeErrorText == "Cannot read properties of undefined (reading 'name')"
SyntaxErrorText == "Unexpected end of JSON input"

convertOne(tc) ==
    IF "function" \notin DOMAIN tc
    THEN [error |-> TypeErrorText, call |-> ToolCall(Undefined, {}, Undefined)]
    ELSE IF ~JSONparse(tc.function.arguments).ok
         THEN [error |-> SyntaxErrorText, call |-> ToolCall(Undefined, {}, Undefined)]
         ELSE [error |-> NoError,
               call |-> ToolCall(tc.function.name,
                                 JSONparse(tc.function.arguments).value, tc.id)]

convertToolCalls(llmToolCalls) ==
    LET bad == {i \in 1..Len(llmToolCalls) : convertOne(llmToolCalls[i]).error # NoError}
    IN  IF bad = {}
        THEN [error |-> NoError,
              calls |-> [i \in 1..Len(llmToolCalls) |-> convertOne(llmToolCalls[i]).call]]
        ELSE [error |-> convertOne(llmToolCalls[CHOOSE i \in bad : \A j \in bad : i <= j]).error,
              calls |-> <<>>]

\* chat(): the content of the tool message of one result
toolMessageContent(result) == OrElse(result.error, JSONstringify(result.result))

\* a tool message that does not say which call it answers
toolMessageUnlabelled(result) == Message(Tool, toolMessageContent(result), <<>>, Undefined)

toolMessage(result) == Message(Tool, toolMessageContent(result), <<>>, result.callId)

\* the tool messages stored before the assistant message that asked for them
toolRoundMessagesToolsFirst(content, toolCalls, results) ==
    [i \in 1..Len(results) |-> toolMessage(results[i])]
    \o <<Message(Assistant, content, toolCalls, Undefined)>>

\* chat(): what is stored after the tools ran, in the order of the addMessage
\* calls: the assistant message with the tool calls, then one tool message
\* per result
toolRoundMessages(content, toolCalls, results) ==
    <<Message(Assistant, content, toolCalls, Undefined)>>
    \o [i \in 1..Len(results) |-> toolMessage(results[i])]

(***************************************************************************)
(* State.                                                                  *)
(***************************************************************************)
VARIABLES
    \* the Agent and its collaborators
    memory,              \* SimpleDictMemory.messages
    tools,               \* ToolRegistry.tools
    llm,                 \* which adapter Agent.llm is
    maxMemoryMessages,   \* Agent.maxMemoryMessages
    pc,                  \* where the running chat() or stream() call is suspended
    response,            \* chat(): response, the first LLMResponse
    followupResponse,    \* chat(): followupResponse
    convertedToolCalls,  \* chat(): convertedToolCalls
    toolResults,         \* executeToolCalls(): results
    fullContent,         \* stream(): fullContent
    outcome,             \* how the last chat() or stream() call settled
    \* the history of the current exchange
    historyAtStart,      \* memory when the exchange began
    appended,            \* messages passed to addMessage, in order
    requests,            \* calls of llm.chat / llm.stream, in order
    executed,            \* tool calls passed to ToolRegistry.executeTool, in order
    adapterError,        \* what the last adapter call threw, NoError if nothing
    forwarded,           \* stream(): chunks yielded to the consumer, in order
    streamed,            \* chunks the adapters have yielded in the session
    events,              \* the chat:* and tool:* events the current call has emitted
    \* one ToolRegistry.executeTool call
    racePc,              \* "Idle", or "Racing" while executeTool awaits Promise.race
    currentCall,         \* executeTool(): toolCall
    handlerBehaviour,    \* what tool.function does in this call
    clock,               \* ms elapsed since executeTool was entered
    executionPromise,    \* executeTool(): executionPromise
    timeoutPromise,      \* executeTool(): timeoutPromise, with the delay of its timer
    raceResult,          \* the ToolResult executeTool returned
    handlerStarted,      \* executeTool(): tool.function was called in the current call
    abandoned,           \* handlers of earlier calls still running: those that will
                         \* settle (late) and those that never do (stuck)
    staleTimers,         \* timers of earlier executeTool calls that have not fired yet
    \* one call of an adapter's chat() or stream()
    wirePc,              \* where the adapter call is suspended
    wireMethod,          \* "chat" or "stream"
    wireMessages,        \* chat()/stream(): messages
    httpRequests,        \* fetch calls made by the current adapter call
    wireOutcome,         \* how the adapter call settled
    wireBody,            \* the request body of the current adapter call: <<data>>, or <<>>
    \* the memory stores used on their own
    storeMaxMessages,    \* SimpleDictMemory.maxMessages, DictMemory.maxMessages
    simpleMessages,      \* SimpleDictMemory.messages
    sessions,            \* DictMemory.sessions
    appendLog,           \* per store, the messages added since it was last cleared
    appendCount,         \* messages added so far
    lastRead,            \* the last Agent.getMessages call: its inputs and result
    dictRead,            \* the last DictMemory.getMessages call and the array it returned
    \* one streamed response body and the parser reading it
    parserPc,            \* where stream() is: before the fetch, in its loop, returned
    unsent,              \* text the provider has written and the network still holds
    linesWritten,        \* lines the provider has written
    arrived,             \* text that reached the client and no read has returned yet
    bodyText,            \* all the text the reads have returned, in order
    buffer,              \* stream(): buffer
    yielded,             \* the chunks the parser has yielded, in order
    parserError,         \* the error that left the parser's loop
    sentinelSeen,        \* the parser has processed the line data: [DONE]
    readAfterSentinel,   \* reader.read() was called after that line
    chunksAfterSentinel, \* chunks yielded after that line
    splitLineYielded,    \* a line that two reads divided has yielded a chunk
    lockReleases,        \* reader.releaseLock() calls made so far
    releasedAt,          \* chunks that had been yielded when the lock was released
    \* two Agents built without a memory in their configuration
    pairHeap,            \* the SimpleDictMemory objects that exist: their messages
    pairAgents,          \* per Agent: its memory, where its chat() is, its last request,
                         \* the messages it has added, its exchanges so far
    \* a ToolRegistry used on its own (its Map is the variable tools)
    lastRegistered,      \* the tool of the last registerTool call: <<tool>>, or <<>>
    nameOrder,           \* the names registered, in the order of their first registration
    exported             \* the last export: the registry it read and both results

agentVars ==
    <<memory, tools, llm, maxMemoryMessages, pc, response, followupResponse, convertedToolCalls,
      toolResults, fullContent, outcome, historyAtStart, appended, requests,
      executed, adapterError, forwarded, streamed, events>>

\* every variable of the Agent but its registry
exchangeVars ==
    <<memory, llm, maxMemoryMessages, pc, response, followupResponse, convertedToolCalls,
      toolResults, fullContent, outcome, historyAtStart, appended, requests,
      executed, adapterError, forwarded, streamed, events>>

raceVars ==
    <<racePc, currentCall, handlerBehaviour, clock, executionPromise, timeoutPromise,
      raceResult, handlerStarted, abandoned, staleTimers>>

wireVars == <<wirePc, wireMethod, wireMessages, httpRequests, wireOutcome, wireBody>>

memVars == <<storeMaxMessages, simpleMessages, sessions, appendLog, appendCount, lastRead, dictRead>>

sseVars ==
    <<parserPc, unsent, linesWritten, arrived, bodyText, buffer, yielded, parserError,
      sentinelSeen, readAfterSentinel, chunksAfterSentinel, splitLineYielded,
      lockReleases, releasedAt>>

pairVars == <<pairHeap, pairAgents>>

regVars == <<lastRegistered, nameOrder, exported>>

vars == <<agentVars, raceVars, wireVars, memVars, sseVars, pairVars, regVars>>

(***************************************************************************)
(* Agent (simple-agent.ts).                                                *)
(***************************************************************************)
UserMessages == {"", "2+2?"}
CallerSystemPrompt == "Be brief."
\* the windows an Agent is configured with: a short one and the default
MemoryWindows == {2, DefaultMaxMemoryMessages}

\* maxMessages as the application configures it
StoreSizes == {0, 1, 2, DefaultMaxMessages}
SessionIds == {"s1", "s2"}
\* the stores: the SimpleDictMemory and each session of the DictMemory
StoreKeys == {"simple"} \cup SessionIds
Read(n, stored, result) == [n |-> n, stored |-> stored, result |-> result]
NoRead == Read(0, <<>>, <<>>)
\* a DictMemory.getMessages call: the session, the limit (<<>> when left out),
\* the session's messages at the call, the array returned as the caller holds
\* it, whether that array is the stored one, whether a change the caller made
\* to it changed the store
DictRead(sessionId, limit, stored, messages, alias, storeChanged) ==
    [sessionId |-> sessionId, limit |-> limit, stored |-> stored, messages |-> messages,
     alias |-> alias, storeChanged |-> storeChanged]
NoDictRead == DictRead("", <<>>, <<>>, <<>>, FALSE, FALSE)
NoCall == ToolCall(Undefined, {}, Undefined)
NoBehaviour == Behaviour(FALSE, 0, "never", Undefined)
NoResult == ToolResult(Undefined, Undefined, Undefined)
Timer(state, delay) == [state |-> state, delay |-> delay]
NoTimer == Timer("none", 0)
\* an export of the registry: the tools it read, the two declaration lists
Export(read, openai, anthropic) == [read |-> read, openai |-> openai, anthropic |-> anthropic]
NoExport == Export(<<>>, <<>>, <<>>)
AgentIds == {"A", "B"}
\* an Agent of the pair: the store this.memory refers to, where its chat() is,
\* the messages of its last request, the messages it added, its exchanges
PairAgent(memoryRef, at, request, own, turns) ==
    [memory |-> memoryRef, pc |-> at, request |-> request, own |-> own, turns |-> turns]
NoAgent == PairAgent(0, "None", <<>>, <<>>, 0)
Abandoned(late, stuck) == [late |-> late, stuck |-> stuck]
WireOutcome(kind, error) == [kind |-> kind, error |-> error]
NoWireOutcome == WireOutcome("none", NoError)
NoResponse == [content |-> Undefined, toolCalls |-> <<>>, usage |-> <<>>]
NoOutcome ==
    [kind |-> "none", content |-> Undefined, toolCalls |-> <<>>, usage |-> <<>>,
     error |-> NoError]
\* chat(): the AgentResponse
Returned(content, toolCalls, usage) ==
    [kind |-> "returned", content |-> content, toolCalls |-> toolCalls, usage |-> usage,
     error |-> NoError]
Rejected(error) ==
    [kind |-> "rejected", content |-> Undefined, toolCalls |-> <<>>, usage |-> <<>>,
     error |-> error]
StreamDone(kind, content) ==
    [kind |-> kind, content |-> content, toolCalls |-> <<>>, usage |-> <<>>,
     error |-> NoError]

\* the second argument of llm.chat / llm.stream: <<tools>>, or <<>> for undefined
toolsArgument(decls) == IF Len(decls) > 0 THEN <<decls>> ELSE <<>>

\* the fields both adapters add to the request body for their tools argument
toolFieldsAlways(adapter, toolsArg) == {"tools", "tool_choice"}
toolFields(adapter, toolsArg) ==
    IF toolsArg # <<>> /\ Len(toolsArg[1]) > 0
    THEN IF adapter = OpenAI THEN {"tools", "tool_choice"} ELSE {"tools"}
    ELSE {}

\* data.tools as JSON.stringify writes it: absent for undefined
dataTools(adapter, toolsArg) ==
    IF toolsArg # <<>> /\ "tools" \in toolFields(adapter, toolsArg)
    THEN toolsArg[1]
    ELSE <<>>

Request(kind, messages, toolsArg) ==
    [kind |-> kind, messages |-> messages,
     fields |-> toolFields(llm, toolsArg),
     tools |-> dataTools(llm, toolsArg),
     http |-> validateMessages(messages) = NoError]

RECURSIVE addMessages(_, _)
\* Agent.addMessage for each message of a list in turn
addMessages(stored, messages) ==
    IF messages = <<>>
    THEN stored
    ELSE addMessages(addMessage(stored, Head(messages), DefaultMaxMessages), Tail(messages))

Init ==
    /\ memory = <<>>
    /\ tools = <<>>
    /\ llm \in {OpenAI, Anthropic}
    /\ maxMemoryMessages \in MemoryWindows
    /\ pc = "Idle"
    /\ response = NoResponse
    /\ followupResponse = NoResponse
    /\ convertedToolCalls = <<>>
    /\ toolResults = <<>>
    /\ fullContent = ""
    /\ outcome = NoOutcome
    /\ historyAtStart = <<>>
    /\ appended = <<>>
    /\ requests = <<>>
    /\ executed = <<>>
    /\ adapterError = NoError
    /\ forwarded = <<>>
    /\ streamed = 0
    /\ events = <<>>
    /\ racePc = "Idle"
    /\ currentCall = NoCall
    /\ handlerBehaviour = NoBehaviour
    /\ clock = 0
    /\ executionPromise = "none"
    /\ timeoutPromise = NoTimer
    /\ raceResult = NoResult
    /\ staleTimers = 0
    /\ wirePc = "Idle"
    /\ wireMethod = "none"
    /\ wireMessages = <<>>
    /\ httpRequests = 0
    /\ wireOutcome = NoWireOutcome
    /\ wireBody = <<>>
    /\ storeMaxMessages = DefaultMaxMessages
    /\ simpleMessages = <<>>
    /\ sessions = <<>>
    /\ appendLog = [k \in StoreKeys |-> <<>>]
    /\ appendCount = 0
    /\ handlerStarted = FALSE
    /\ abandoned = Abandoned(0, 0)
    /\ lastRead = NoRead
    /\ dictRead = NoDictRead
    /\ parserPc = "Idle"
    /\ unsent = <<>>
    /\ linesWritten = 0
    /\ arrived = <<>>
    /\ bodyText = <<>>
    /\ buffer = <<>>
    /\ yielded = <<>>
    /\ parserError = NoError
    /\ sentinelSeen = FALSE
    /\ readAfterSentinel = FALSE
    /\ chunksAfterSentinel = 0
    /\ splitLineYielded = FALSE
    /\ lockReleases = 0
    /\ releasedAt = 0
    /\ pairHeap = <<>>
    /\ lastRegistered = <<>>
    /\ nameOrder = <<>>
    /\ exported = NoExport
    /\ pairAgents = [a \in AgentIds |-> NoAgent]

\* the application sets the Agent up before its first exchange
Setup == pc = "Idle" /\ requests = <<>>

\* Agent.registerTool
RegisterTool(tool) ==
    /\ Setup
    /\ tools' = registerTool(tools, tool)
    /\ UNCHANGED <<memory, llm, maxMemoryMessages, pc, response, convertedToolCalls,
                   toolResults, fullContent, outcome, historyAtStart, appended,
                   requests, executed, adapterError, forwarded, streamed, followupResponse, events, raceVars, wireVars, memVars, sseVars, pairVars, regVars>>

\* Agent.addMessage called by the application with a system message
AddSystemMessage ==
    /\ Setup
    /\ SystemCount(memory) < MaxSystem
    /\ Len(memory) < MaxHistory
    /\ memory' = addMessage(memory, Message(System, CallerSystemPrompt, <<>>, Undefined),
                            DefaultMaxMessages)
    /\ UNCHANGED <<tools, llm, maxMemoryMessages, pc, response, convertedToolCalls,
                   toolResults, fullContent, outcome, historyAtStart, appended,
                   requests, executed, adapterError, forwarded, streamed, followupResponse, events, raceVars, wireVars, memVars, sseVars, pairVars, regVars>>

\* an event as a listener receives it: its name and, for the tool events, the
\* callId of its payload
Emitted(name, callId) == [name |-> name, callId |-> callId]
ChatStarted == Emitted("chat:start", Undefined)
ChatCompleted == Emitted("chat:complete", Undefined)
ChatFailed == Emitted("chat:error", Undefined)

\* chat() and stream(): the first emit; stream() emits stream:start
emitStart(kind) == IF kind = "chat" THEN <<ChatStarted>> ELSE <<>>

\* the catch block of chat() and of stream(); stream() emits stream:error
emitError(log) ==
    IF log # <<>> /\ log[1] = ChatStarted THEN Append(log, ChatFailed) ELSE log

\* a loop that emits tool:call and never tool:result
emitToolEventsUnanswered(log, toolCall, result) ==
    Append(log, Emitted("tool:call", toolCall.callId))

\* executeToolCalls(): one turn of the loop emits tool:call with the call,
\* then tool:result with the result
emitToolEvents(log, toolCall, result) ==
    log \o <<Emitted("tool:call", toolCall.callId), Emitted("tool:result", result.callId)>>

\* a catch block that wraps what it caught in a new error
chatCatchWrapped(error) == Rejected("Chat failed: " \o error)

\* chat() and stream(): the catch block rethrows what it caught
chatCatch(error) == Rejected(error)

Throw(error) ==
    /\ outcome' = chatCatch(error)
    /\ pc' = "Idle"

\* chat() or stream() up to the adapter call: the user message is stored, the
\* outbound list and the tool declarations are built, the adapter validates
BeginExchange(kind, userMessage, awaiting) ==
    LET userMsg == Message(User, userMessage, <<>>, Undefined)
        stored == addMessage(memory, userMsg, DefaultMaxMessages)
        messages == prepareMessages(stored, maxMemoryMessages, DefaultSystemPrompt)
        error == validateMessages(messages)
    IN  /\ pc = "Idle"
        /\ Len(memory) + 2 <= MaxHistory
        /\ memory' = storeAfterPrepare(stored, maxMemoryMessages, DefaultSystemPrompt)
        /\ historyAtStart' = memory
        /\ appended' = <<userMsg>>
        /\ requests' = <<Request(kind, messages, toolsArgument(getOpenAITools(tools)))>>
        /\ executed' = <<>>
        /\ forwarded' = <<>>
        /\ response' = NoResponse
        /\ convertedToolCalls' = <<>>
        /\ toolResults' = <<>>
        /\ fullContent' = ""
        /\ adapterError' = error
        /\ IF error # NoError
           THEN Throw(error) /\ events' = emitError(emitStart(kind))
           ELSE pc' = awaiting /\ outcome' = NoOutcome /\ events' = emitStart(kind)
        /\ followupResponse' = NoResponse
        /\ UNCHANGED <<tools, llm, maxMemoryMessages, streamed, raceVars, wireVars, memVars, sseVars, pairVars, regVars>>

\* chat(userMessage), to the first await of llm.chat
ChatStart(userMessage) == BeginExchange("chat", userMessage, "AwaitingModel")

\* an AgentResponse that never reports usage
agentUsageDropped(usage) == <<>>

\* chat(): usage of the AgentResponse, response.usage with `|| 0` on each count
agentUsage(usage) ==
    IF usage # <<>>
    THEN <<[promptTokens |-> usage[1].promptTokens,
            completionTokens |-> usage[1].completionTokens,
            totalTokens |-> usage[1].totalTokens]>>
    ELSE <<>>

\* chat(): the final assistant message is stored and the AgentResponse returned
Finish(finalContent, allToolCalls, usage) ==
    LET assistantMsg == Message(Assistant, finalContent, <<>>, Undefined)
    IN  /\ memory' = addMessage(memory, assistantMsg, DefaultMaxMessages)
        /\ appended' = Append(appended, assistantMsg)
        /\ outcome' = Returned(finalContent, allToolCalls, agentUsage(usage))
        /\ pc' = "Idle"

\* the tool calls a response may carry while the history stays within the bound
Room == Max(0, Min(MaxCalls, MaxHistory - Len(memory) - 2))

\* chat(): the first llm.chat resolves
LLMRespond ==
    /\ pc = "AwaitingModel"
    /\ \E wire \in WireResponses(llm, Room) :
         LET first == chatResponse(llm, wire)
             conv == convertToolCalls(first.toolCalls)
         IN  /\ response' = first
             /\ IF Len(first.toolCalls) > 0
                THEN IF conv.error # NoError
                     THEN /\ Throw(conv.error)
                          /\ events' = emitError(events)
                          /\ UNCHANGED <<memory, appended, convertedToolCalls>>
                     ELSE /\ convertedToolCalls' = conv.calls
                          /\ pc' = "ResolvingTools"
                          /\ UNCHANGED <<memory, appended, outcome, events>>
                ELSE /\ Finish(first.content, <<>>, first.usage)
                     /\ events' = Append(events, ChatCompleted)
                     /\ UNCHANGED convertedToolCalls
    /\ UNCHANGED <<tools, llm, maxMemoryMessages, toolResults, fullContent,
                   historyAtStart, requests, executed, adapterError, forwarded, streamed, followupResponse, raceVars, wireVars, memVars, sseVars, pairVars, regVars>>

\* chat(): the first llm.chat rejects
LLMFail ==
    /\ pc = "AwaitingModel"
    /\ \E error \in AdapterErrors(llm) :
         /\ adapterError' = error
         /\ Throw(error)
    /\ events' = emitError(events)
    /\ UNCHANGED <<memory, tools, llm, maxMemoryMessages, response, convertedToolCalls,
                   toolResults, fullContent, historyAtStart, appended, requests,
                   executed, forwarded, streamed, followupResponse, raceVars, wireVars, memVars, sseVars, pairVars, regVars>>

\* executeToolCalls(): one turn of the loop; after the last one chat() stores the
\* assistant message and the tool messages and calls llm.chat again
ToolStep ==
    /\ pc = "ResolvingTools"
    /\ \E beh \in Behaviours, tie \in {"handler", "timer"} :
         LET toolCall == convertedToolCalls[Len(toolResults) + 1]
             results == Append(toolResults, executeTool(tools, toolCall, beh, tie))
             messages == toolRoundMessages(response.content, convertedToolCalls, results)
             stored == addMessages(memory, messages)
             updatedMessages == followupMessages(stored, maxMemoryMessages)
             error == validateMessages(updatedMessages)
             emitted == emitToolEvents(events, toolCall, results[Len(results)])
         IN  /\ executed' = Append(executed, toolCall)
             /\ toolResults' = results
             /\ IF Len(results) < Len(convertedToolCalls)
                THEN /\ events' = emitted
                     /\ UNCHANGED <<memory, appended, requests, adapterError, pc, outcome>>
                ELSE /\ memory' = stored
                     /\ appended' = appended \o messages
                     /\ requests' = Append(requests, Request("followup", updatedMessages, <<>>))
                     /\ adapterError' = error
                     /\ IF error # NoError
                        THEN Throw(error) /\ events' = emitError(emitted)
                        ELSE pc' = "AwaitingFollowup" /\ events' = emitted /\ UNCHANGED outcome
    /\ UNCHANGED <<tools, llm, maxMemoryMessages, response, convertedToolCalls,
                   fullContent, historyAtStart, forwarded, streamed, followupResponse, raceVars, wireVars, memVars, sseVars, pairVars, regVars>>

\* chat(): the follow-up llm.chat resolves
FollowupRespond ==
    /\ pc = "AwaitingFollowup"
    /\ \E wire \in WireResponses(llm, MaxCalls) :
         LET followup == chatResponse(llm, wire)
             conv == convertToolCalls(followup.toolCalls)
         IN  /\ followupResponse' = followup
             /\ IF conv.error # NoError
                THEN /\ Throw(conv.error)
                     /\ events' = emitError(events)
                     /\ UNCHANGED <<memory, appended>>
                ELSE /\ Finish(followup.content, convertedToolCalls \o conv.calls,
                               response.usage)
                     /\ events' = Append(events, ChatCompleted)
    /\ UNCHANGED <<tools, llm, maxMemoryMessages, response, convertedToolCalls,
                   toolResults, fullContent, historyAtStart, requests, executed,
                   adapterError, forwarded, streamed, raceVars, wireVars, memVars, sseVars, pairVars, regVars>>

\* chat(): the follow-up llm.chat rejects
FollowupFail ==
    /\ pc = "AwaitingFollowup"
    /\ \E error \in AdapterErrors(llm) :
         /\ adapterError' = error
         /\ Throw(error)
    /\ events' = emitError(events)
    /\ UNCHANGED <<memory, tools, llm, maxMemoryMessages, response, convertedToolCalls,
                   toolResults, fullContent, historyAtStart, appended, requests,
                   executed, forwarded, streamed, followupResponse, raceVars, wireVars, memVars, sseVars, pairVars, regVars>>

(***************************************************************************)
(* Agent.stream, an async generator: it runs when its consumer asks for    *)
(* the next chunk and is suspended at `yield chunk` while the consumer     *)
(* holds one.                                                              *)
(***************************************************************************)
Chunk(content, toolCalls, finished) ==
    [content |-> content, toolCalls |-> toolCalls, finished |-> finished]

ContentDeltas == {"Hel", "lo"}

\* what OpenAILLM.stream and AnthropicLLM.stream yield: a content delta, a
\* tool-call fragment (OpenAI only) or the finished mark
StreamChunks(adapter) ==
    {Chunk(d, <<>>, FALSE) : d \in ContentDeltas}
    \cup {Chunk(Undefined, <<>>, TRUE)}
    \cup IF adapter = OpenAI
         THEN {Chunk(Undefined, <<OpenAIToolCall(1, "get_weather", BadArguments)>>, FALSE)}
         ELSE {}

\* stream(userMessage), from the consumer's first next() to the first await
\* of llm.stream
StreamStart(userMessage) == BeginExchange("stream", userMessage, "Streaming")

\* stream(): yield chunk, whatever the chunk carries
yieldContentOnly(handed, chunk) ==
    IF chunk.toolCalls # <<>> THEN handed ELSE Append(handed, chunk)
yieldChunk(handed, chunk) == Append(handed, chunk)

\* stream(): the chunk is added to fullContent and yielded
StreamChunk ==
    /\ pc = "Streaming"
    /\ streamed < MaxChunks
    /\ streamed' = streamed + 1
    /\ \E chunk \in StreamChunks(llm) :
         /\ fullContent' =
                IF ~Falsy(chunk.content) THEN fullContent \o chunk.content ELSE fullContent
         /\ forwarded' = yieldChunk(forwarded, chunk)
    /\ pc' = "Yielded"
    /\ UNCHANGED <<memory, tools, llm, maxMemoryMessages, response, convertedToolCalls,
                   toolResults, outcome, historyAtStart, appended, requests, executed,
                   adapterError, followupResponse, events, raceVars, wireVars, memVars, sseVars, pairVars, regVars>>

\* stream(): after the loop, the assistant message is stored if fullContent is
\* not empty, and the generator completes
Commit ==
    LET assistantMsg == Message(Assistant, fullContent, <<>>, Undefined)
    IN  /\ IF ~Falsy(fullContent)
           THEN /\ memory' = addMessage(memory, assistantMsg, DefaultMaxMessages)
                /\ appended' = Append(appended, assistantMsg)
           ELSE UNCHANGED <<memory, appended>>
        /\ outcome' = StreamDone("completed", fullContent)
        /\ pc' = "Idle"

\* the consumer asks for the next chunk: the generator resumes after the yield
\* and leaves the loop if the chunk it yielded was the finished one
ConsumerNext ==
    /\ pc = "Yielded"
    /\ IF forwarded[Len(forwarded)].finished
       THEN Commit
       ELSE pc' = "Streaming" /\ UNCHANGED <<memory, appended, outcome>>
    /\ UNCHANGED <<tools, llm, maxMemoryMessages, response, convertedToolCalls,
                   toolResults, fullContent, historyAtStart, requests, executed,
                   adapterError, forwarded, streamed, followupResponse, events, raceVars, wireVars, memVars, sseVars, pairVars, regVars>>

\* the consumer leaves its for-await loop (break): the generator is resumed
\* with a return at the yield and completes there
ConsumerStop ==
    /\ pc = "Yielded"
    /\ outcome' = StreamDone("stopped", fullContent)
    /\ pc' = "Idle"
    /\ UNCHANGED <<memory, tools, llm, maxMemoryMessages, response, convertedToolCalls,
                   toolResults, fullContent, historyAtStart, appended, requests,
                   executed, adapterError, forwarded, streamed, followupResponse, events, raceVars, wireVars, memVars, sseVars, pairVars, regVars>>

\* the adapter's stream ends: the body is closed
StreamEnd ==
    /\ pc = "Streaming"
    /\ Commit
    /\ UNCHANGED <<tools, llm, maxMemoryMessages, response, convertedToolCalls,
                   toolResults, fullContent, historyAtStart, requests, executed,
                   adapterError, forwarded, streamed, followupResponse, events, raceVars, wireVars, memVars, sseVars, pairVars, regVars>>

\* the adapter's stream throws: a non-2xx status, a failed read
StreamFail ==
    /\ pc = "Streaming"
    /\ \E error \in AdapterErrors(llm) :
         /\ adapterError' = error
         /\ Throw(error)
    /\ events' = emitError(events)
    /\ UNCHANGED <<memory, tools, llm, maxMemoryMessages, response, convertedToolCalls,
                   toolResults, fullContent, historyAtStart, appended, requests,
                   executed, forwarded, streamed, followupResponse, raceVars, wireVars, memVars, sseVars, pairVars, regVars>>

Next ==
    \/ \E tool \in ToolCatalog : RegisterTool(tool)
    \/ AddSystemMessage
    \/ \E userMessage \in UserMessages : ChatStart(userMessage)
    \/ LLMRespond
    \/ LLMFail
    \/ ToolStep
    \/ FollowupRespond
    \/ FollowupFail

\* an Agent used through chat()
Spec == Init /\ [][Next]_vars

StreamNext ==
    \/ \E tool \in ToolCatalog : RegisterTool(tool)
    \/ AddSystemMessage
    \/ \E userMessage \in UserMessages : StreamStart(userMessage)
    \/ StreamChunk
    \/ ConsumerNext
    \/ ConsumerStop
    \/ StreamEnd
    \/ StreamFail

\* an Agent used through stream()
StreamSpec == Init /\ [][StreamNext]_vars

(***************************************************************************)
(* ToolRegistry.executeTool, step by step: the timer of the timeout        *)
(* promise is armed, the handler is invoked, and the event loop then runs  *)
(* whichever callback is due first.  A handler that runs synchronously     *)
(* keeps the event loop busy until it is done, so no timer callback runs   *)
(* before the race has settled with the handler's outcome.  Calls are made *)
(* one at a time, as executeToolCalls makes them; the promises of an       *)
(* earlier call cannot settle a later one and are forgotten when the next  *)
(* call begins.                                                            *)
(***************************************************************************)
\* the ToolResult of a handler that settled first
\* executeTool without its catch: the handler's failure leaves as a rejection
handlerResultUncaught(toolCall, beh) ==
    IF beh.settles = "returns"
    THEN ToolResult(toolCall.callId, beh.value, Undefined)
    ELSE [rejected |-> beh.value]

\* what executeTool returns when the handler's promise settles first: the try
\* block's return for a value, the catch block's for a throw or a rejection
handlerResult(toolCall, beh) ==
    IF beh.settles = "returns"
    THEN ToolResult(toolCall.callId, beh.value, Undefined)
    ELSE ToolResult(toolCall.callId, Undefined, beh.value)

\* the timers of earlier calls once the next call starts: executeTool never
\* calls clearTimeout, a timer that has not fired stays until it fires
afterReturn(stale, timer) ==
    IF timer.state = "pending" THEN stale + 1 ELSE stale

\* the application registers a tool built by createTool
ToolRegister(config) ==
    /\ racePc = "Idle"
    /\ tools' = registerTool(tools, createTool(config))
    /\ UNCHANGED <<exchangeVars, raceVars, wireVars, memVars, sseVars, pairVars, regVars>>

\* executeTool(toolCall), to the await of Promise.race or to its return
ExecuteStart(toolCall, beh) ==
    LET found == getTool(tools, toolCall.name)
    IN  /\ racePc = "Idle"
        /\ executionPromise = "pending" =>
                abandoned.late + abandoned.stuck < MaxLateHandlers
        /\ timeoutPromise.state = "pending" => staleTimers < MaxStaleTimers
        /\ staleTimers' = afterReturn(staleTimers, timeoutPromise)
        /\ abandoned' =
               IF executionPromise # "pending"
               THEN abandoned
               ELSE IF handlerBehaviour.settles = "never"
                    THEN Abandoned(abandoned.late, abandoned.stuck + 1)
                    ELSE Abandoned(abandoned.late + 1, abandoned.stuck)
        /\ handlerStarted' = (Len(found) > 0)
        /\ currentCall' = toolCall
        /\ handlerBehaviour' = beh
        /\ IF Len(found) = 0
           THEN /\ raceResult' = ToolResult(toolCall.callId, Undefined,
                                            NotFoundError(toolCall.name))
                /\ clock' = 0
                /\ executionPromise' = "none"
                /\ timeoutPromise' = NoTimer
                /\ racePc' = "Idle"
           ELSE /\ timeoutPromise' = Timer("pending", timerDelay(found[1]))
                /\ IF beh.sync
                   THEN /\ clock' = beh.dur
                        /\ raceResult' = handlerResult(toolCall, beh)
                        /\ executionPromise' =
                               IF beh.settles = "returns" THEN "fulfilled" ELSE "none"
                        /\ racePc' = "Idle"
                   ELSE /\ clock' = 0
                        /\ raceResult' = NoResult
                        /\ executionPromise' = "pending"
                        /\ racePc' = "Racing"
        /\ UNCHANGED <<agentVars, wireVars, memVars, sseVars, pairVars, regVars>>

\* the promise the handler returned settles
HandlerSettles ==
    /\ executionPromise = "pending"
    /\ handlerBehaviour.settles # "never"
    /\ timeoutPromise.state = "pending" => handlerBehaviour.dur <= timeoutPromise.delay
    /\ clock' = Max(clock, handlerBehaviour.dur)
    /\ executionPromise' =
           IF handlerBehaviour.settles = "returns" THEN "fulfilled" ELSE "rejected"
    /\ IF racePc = "Racing"
       THEN /\ raceResult' = handlerResult(currentCall, handlerBehaviour)
            /\ racePc' = "Idle"
       ELSE UNCHANGED <<raceResult, racePc>>
    /\ UNCHANGED <<agentVars, wireVars, memVars, sseVars, pairVars, regVars, currentCall, handlerBehaviour, timeoutPromise,
                   handlerStarted, abandoned, staleTimers>>

\* the timer of the timeout promise fires: the promise rejects
TimerFires ==
    /\ timeoutPromise.state = "pending"
    /\ (executionPromise = "pending" /\ handlerBehaviour.settles # "never")
          => timeoutPromise.delay <= handlerBehaviour.dur
    /\ clock' = Max(clock, timeoutPromise.delay)
    /\ timeoutPromise' = Timer("rejected", timeoutPromise.delay)
    /\ IF racePc = "Racing"
       THEN /\ raceResult' = ToolResult(currentCall.callId, Undefined, TimeoutError)
            /\ racePc' = "Idle"
       ELSE UNCHANGED <<raceResult, racePc>>
    /\ UNCHANGED <<agentVars, wireVars, memVars, sseVars, pairVars, regVars, currentCall, handlerBehaviour, executionPromise,
                   handlerStarted, abandoned, staleTimers>>

\* the handler of an earlier call, whose timeout had fired, finishes at last
LateHandlerSettles ==
    /\ abandoned.late > 0
    /\ abandoned' = Abandoned(abandoned.late - 1, abandoned.stuck)
    /\ UNCHANGED <<agentVars, wireVars, memVars, sseVars, pairVars, regVars, racePc, currentCall, handlerBehaviour, clock,
                   executionPromise, timeoutPromise, raceResult, handlerStarted, staleTimers>>

\* the timer of an earlier call fires: its rejection has no one waiting
StaleTimerFires ==
    /\ staleTimers > 0
    /\ staleTimers' = staleTimers - 1
    /\ UNCHANGED <<agentVars, wireVars, memVars, sseVars, pairVars, regVars, racePc, currentCall, handlerBehaviour, clock,
                   executionPromise, timeoutPromise, raceResult, handlerStarted, abandoned>>

\* the calls a caller of executeTool makes
RegistryCalls ==
    {ToolCall(name, {<<"city", "Tokyo">>}, CallId(1)) : name \in ToolNames}

ToolNext ==
    \/ \E config \in ToolConfigs : ToolRegister(config)
    \/ \E toolCall \in RegistryCalls, beh \in Behaviours : ExecuteStart(toolCall, beh)
    \/ HandlerSettles
    \/ TimerFires
    \/ LateHandlerSettles
    \/ StaleTimerFires

\* a ToolRegistry used through registerTool and executeTool
ToolSpec == Init /\ [][ToolNext]_vars

\* the same, with the event loop running every timer callback that is due and
\* every settled promise's reaction
ToolLiveSpec == ToolSpec /\ WF_vars(HandlerSettles) /\ WF_vars(TimerFires)

(***************************************************************************)
(* One adapter (OpenAILLM or AnthropicLLM, base.ts) called directly with a *)
(* message list: chat() runs to its fetch at once; stream() is an async    *)
(* generator whose body starts at the consumer's first next().             *)
(***************************************************************************)
WireRoles == {User, Undefined}
WireContents == {"hi", "", Undefined}
WireMessage == {Message(r, c, <<>>, Undefined) : r \in WireRoles, c \in WireContents}
WireMessageLists ==
    UNION {[1..n -> WireMessage] : n \in 0..MaxWireMessages}

\* data.messages of OpenAILLM: every message, as {role, content}
openAIMessages(messages) ==
    [i \in 1..Len(messages) |-> [role |-> messages[i].role, content |-> messages[i].content]]

\* anthropicMessages after the loop: the messages that are not system messages,
\* with the role assistant kept and every other role sent as user
anthropicMessages(messages) ==
    LET others == SelectSeq(messages, LAMBDA m : m.role # System)
    IN  [i \in 1..Len(others) |->
            [role |-> IF others[i].role = Assistant THEN Assistant ELSE User,
             content |-> others[i].content]]

RECURSIVE systemMessage(_)
\* systemMessage after the loop: '' at first, assigned at every system message
systemMessage(messages) ==
    IF messages = <<>>
    THEN ""
    ELSE LET last == messages[Len(messages)]
         IN  IF last.role = System
             THEN last.content
             ELSE systemMessage(SubSeq(messages, 1, Len(messages) - 1))

\* data.system: set when systemMessage is truthy; <<text>>, or <<>> for absent
dataSystem(messages) ==
    IF Falsy(systemMessage(messages)) THEN <<>> ELSE <<systemMessage(messages)>>

\* the data object of a request: its messages and its system field
requestData(adapter, messages) ==
    IF adapter = OpenAI
    THEN [messages |-> openAIMessages(messages), system |-> <<>>]
    ELSE [messages |-> anthropicMessages(messages), system |-> dataSystem(messages)]

\* chat()/stream() from their first statement to the fetch of makeRequest
adapterBody(messages) ==
    LET error == validateMessages(messages)
    IN  IF error # NoError
        THEN /\ wireOutcome' = WireOutcome("rejected", error)
             /\ httpRequests' = 0
             /\ wireBody' = <<>>
             /\ wirePc' = "Idle"
        ELSE /\ wireOutcome' = NoWireOutcome
             /\ httpRequests' = 1
             /\ wireBody' = <<requestData(llm, messages)>>
             /\ wirePc' = "AwaitingHTTP"

\* llm.chat(messages)
AdapterChat(messages) ==
    /\ wirePc \in {"Idle", "Created"}
    /\ wireMethod' = "chat"
    /\ wireMessages' = messages
    /\ adapterBody(messages)
    /\ UNCHANGED <<agentVars, raceVars, memVars, sseVars, pairVars, regVars>>

\* llm.stream(messages): the generator object is created, its body has not started
AdapterStream(messages) ==
    /\ wirePc \in {"Idle", "Created"}
    /\ wireMethod' = "stream"
    /\ wireMessages' = messages
    /\ wireOutcome' = NoWireOutcome
    /\ httpRequests' = 0
    /\ wireBody' = <<>>
    /\ wirePc' = "Created"
    /\ UNCHANGED <<agentVars, raceVars, memVars, sseVars, pairVars, regVars>>

\* the consumer's first next(): the body of stream() starts
StreamFirstNext ==
    /\ wirePc = "Created"
    /\ adapterBody(wireMessages)
    /\ UNCHANGED <<agentVars, raceVars, memVars, sseVars, pairVars, regVars, wireMethod, wireMessages>>

\* the HTTP response arrives with a 2xx status
HTTPOk ==
    /\ wirePc = "AwaitingHTTP"
    /\ wireOutcome' = WireOutcome("resolved", NoError)
    /\ wirePc' = "Idle"
    /\ UNCHANGED <<agentVars, raceVars, memVars, sseVars, pairVars, regVars, wireMethod, wireMessages, httpRequests, wireBody>>

\* fetch rejects or the status is not 2xx
HTTPFail ==
    /\ wirePc = "AwaitingHTTP"
    /\ \E error \in AdapterErrors(llm) : wireOutcome' = WireOutcome("rejected", error)
    /\ httpRequests' = afterFailure(httpRequests)
    /\ wirePc' = "Idle"
    /\ UNCHANGED <<agentVars, raceVars, memVars, sseVars, pairVars, regVars, wireMethod, wireMessages, wireBody>>

AdapterNext ==
    \/ \E messages \in WireMessageLists : AdapterChat(messages)
    \/ \E messages \in WireMessageLists : AdapterStream(messages)
    \/ StreamFirstNext
    \/ HTTPOk
    \/ HTTPFail

\* an adapter used through chat() and stream()
AdapterSpec == Init /\ [][AdapterNext]_vars

\* conversations as an Agent hands them to its adapter: every message has a role
\* and a content, and the caller may have added more than one system message
BodyMessage ==
    {Message(System, "be brief", <<>>, Undefined), Message(System, "be kind", <<>>, Undefined),
     Message(User, "hi", <<>>, Undefined), Message(Assistant, "hello", <<>>, Undefined)}
BodyMessageLists ==
    UNION {[1..n -> BodyMessage] : n \in 1..MaxBodyMessages}

BodyNext ==
    \/ \E messages \in BodyMessageLists : AdapterChat(messages)
    \/ \E messages \in BodyMessageLists : AdapterStream(messages)
    \/ StreamFirstNext
    \/ HTTPOk
    \/ HTTPFail

\* an adapter called with well-formed conversations
BodySpec == Init /\ [][BodyNext]_vars

(***************************************************************************)
(* The memory stores on their own: SimpleDictMemory (simple-agent.ts) and  *)
(* DictMemory (memory.ts) take messages, are cleared, and the history of   *)
(* the SimpleDictMemory is read through Agent.getMessages with a maximum.  *)
(* DictMemory.sessions is the sequence of the Map's [id, messages]         *)
(* entries.                                                                *)
(***************************************************************************)
\* sessions.has(sessionId)
hasSession(entries, sessionId) ==
    \E i \in 1..Len(entries) : entries[i].id = sessionId

\* sessions.get(sessionId) || []
sessionMessages(entries, sessionId) ==
    LET found == SelectSeq(entries, LAMBDA e : e.id = sessionId)
    IN  IF Len(found) = 0 THEN <<>> ELSE found[1].messages

\* sessions.set(sessionId, value)
setSession(entries, sessionId, value) ==
    IF hasSession(entries, sessionId)
    THEN [i \in 1..Len(entries) |->
             IF entries[i].id = sessionId
             THEN [id |-> sessionId, messages |-> value]
             ELSE entries[i]]
    ELSE Append(entries, [id |-> sessionId, messages |-> value])

\* DictMemory.addMessage
dictAddMessage(entries, sessionId, message, max) ==
    LET pushed == Append(sessionMessages(entries, sessionId), message)
    IN  setSession(entries, sessionId,
                   IF Len(pushed) > max THEN JsSlice(pushed, -max) ELSE pushed)

\* DictMemory.clearSession
clearSession(entries, sessionId) ==
    SelectSeq(entries, LAMBDA e : e.id # sessionId)

\* DictMemory.getMessages: slice and spread both build a new array
dictGetMessages(entries, sessionId, limit) ==
    LET messages == sessionMessages(entries, sessionId)
    IN  IF limit # <<>>
        THEN [messages |-> JsSlice(messages, -limit[1]), alias |-> FALSE]
        ELSE [messages |-> messages, alias |-> FALSE]

\* the k-th message given to a store: its content tells it from the others
StoreRoles == {System, User, Assistant}
NumberedMessage(role, k) == Message(role, "m" \o ToString(k), <<>>, Undefined)

\* new SimpleDictMemory(max), new DictMemory(max)
NewStore(max) ==
    /\ appendCount = 0
    /\ storeMaxMessages = DefaultMaxMessages
    /\ max # DefaultMaxMessages
    /\ storeMaxMessages' = max
    /\ UNCHANGED <<agentVars, raceVars, wireVars, sseVars, pairVars, regVars, simpleMessages, sessions, appendLog,
                   appendCount, lastRead, dictRead>>

\* memory.addMessage(message) on the SimpleDictMemory
SimpleAdd(role) ==
    LET message == NumberedMessage(role, appendCount + 1)
    IN  /\ appendCount < MaxAppends
        /\ appendCount' = appendCount + 1
        /\ simpleMessages' = addMessage(simpleMessages, message, storeMaxMessages)
        /\ appendLog' = [appendLog EXCEPT !["simple"] = Append(@, message)]
        /\ UNCHANGED <<agentVars, raceVars, wireVars, sseVars, pairVars, regVars, storeMaxMessages, sessions, lastRead, dictRead>>

\* memory.clear() on the SimpleDictMemory
SimpleClear ==
    /\ simpleMessages # <<>>
    /\ simpleMessages' = <<>>
    /\ appendLog' = [appendLog EXCEPT !["simple"] = <<>>]
    /\ UNCHANGED <<agentVars, raceVars, wireVars, sseVars, pairVars, regVars, storeMaxMessages, sessions, appendCount,
                   lastRead, dictRead>>

\* addMessage(sessionId, message) on the DictMemory
DictAdd(sessionId, role) ==
    LET message == NumberedMessage(role, appendCount + 1)
    IN  /\ appendCount < MaxAppends
        /\ appendCount' = appendCount + 1
        /\ sessions' = dictAddMessage(sessions, sessionId, message, storeMaxMessages)
        /\ appendLog' = [appendLog EXCEPT ![sessionId] = Append(@, message)]
        /\ UNCHANGED <<agentVars, raceVars, wireVars, sseVars, pairVars, regVars, storeMaxMessages, simpleMessages, lastRead, dictRead>>

\* clearSession(sessionId) on the DictMemory
DictClear(sessionId) ==
    /\ hasSession(sessions, sessionId)
    /\ sessions' = clearSession(sessions, sessionId)
    /\ appendLog' = [appendLog EXCEPT ![sessionId] = <<>>]
    /\ UNCHANGED <<agentVars, raceVars, wireVars, sseVars, pairVars, regVars, storeMaxMessages, simpleMessages, appendCount,
                   lastRead, dictRead>>

\* Agent.getMessages() of an Agent whose maxMemoryMessages is n
AgentRead(n) ==
    /\ lastRead' = Read(n, simpleMessages, getMessages(simpleMessages, n))
    /\ UNCHANGED <<agentVars, raceVars, wireVars, sseVars, pairVars, regVars, storeMaxMessages, simpleMessages, sessions,
                   appendLog, appendCount, dictRead>>

MemoryNext ==
    \/ \E max \in StoreSizes : NewStore(max)
    \/ \E role \in StoreRoles : SimpleAdd(role)
    \/ SimpleClear
    \/ \E sessionId \in SessionIds, role \in StoreRoles : DictAdd(sessionId, role)
    \/ \E sessionId \in SessionIds : DictClear(sessionId)
    \/ \E n \in 1..MaxWindow : AgentRead(n)

\* the limits a caller passes to DictMemory.getMessages: none, or a count
Limits == {<<>>} \cup {<<n>> : n \in 0..MaxLimit}

\* getMessages(sessionId, limit) on the DictMemory
DictGet(sessionId, limit) ==
    LET got == dictGetMessages(sessions, sessionId, limit)
    IN  /\ dictRead' = DictRead(sessionId, limit, sessionMessages(sessions, sessionId),
                                got.messages, got.alias, FALSE)
        /\ UNCHANGED <<agentVars, raceVars, wireVars, sseVars, pairVars, regVars, storeMaxMessages,
                       simpleMessages, sessions, appendLog, appendCount, lastRead>>

\* the caller pushes a message of its own onto the array it was returned: the
\* store changes with it when that array is the stored one
CallerPush ==
    LET own == Message(User, "mine", <<>>, Undefined)
        after == IF dictRead.alias /\ hasSession(sessions, dictRead.sessionId)
                 THEN setSession(sessions, dictRead.sessionId,
                                 Append(sessionMessages(sessions, dictRead.sessionId), own))
                 ELSE sessions
    IN  /\ dictRead # NoDictRead
        /\ Len(dictRead.messages) <= MaxAppends
        /\ sessions' = after
        /\ dictRead' = [dictRead EXCEPT !.messages = Append(@, own),
                                        !.storeChanged = (after # sessions)]
        /\ UNCHANGED <<agentVars, raceVars, wireVars, sseVars, pairVars, regVars, storeMaxMessages,
                       simpleMessages, appendLog, appendCount, lastRead>>

DictNext ==
    \/ \E sessionId \in SessionIds : DictAdd(sessionId, User)
    \/ \E sessionId \in SessionIds : DictClear(sessionId)
    \/ \E sessionId \in SessionIds, limit \in Limits : DictGet(sessionId, limit)
    \/ CallerPush

\* a DictMemory read through getMessages with and without a limit
DictSpec == Init /\ [][DictNext]_vars

\* the memory stores and the Agent's bounded read
MemorySpec == Init /\ [][MemoryNext]_vars

(***************************************************************************)
(* The body of a streamed response as the parsers of OpenAILLM.stream and  *)
(* AnthropicLLM.stream meet it.  Text is a sequence of pieces, each piece  *)
(* a run of characters no read divides: the event prefix, a payload, a     *)
(* newline, a carriage return.                                             *)
(***************************************************************************)
Prefix == "data: "
Newline == "\n"
Return == "\r"
Whitespace == {" ", Return}
Sentinel == "[DONE]"
KeepAlive == ": keep-alive"
BadJSON == "{\"choices\":"

\* what JSON.parse returns for a payload, as far as the parsers look into it
Event(type, content, tool_calls, finish_reason, text) ==
    [type |-> type, content |-> content, tool_calls |-> tool_calls,
     finish_reason |-> finish_reason, text |-> text]

\* payload texts with valid JSON, by provider, and their parsed values;
\* tool_calls is <<>> where the delta has none, <<list>> where it has a list
Payloads(adapter) ==
    IF adapter = OpenAI
    THEN [content |-> "{\"choices\":[{\"delta\":{\"content\":\"Hel\"}}]}",
          tool_calls |-> "{\"choices\":[{\"delta\":{\"tool_calls\":[...]}}]}",
          finish |-> "{\"choices\":[{\"delta\":{},\"finish_reason\":\"stop\"}]}"]
    ELSE [content |-> "{\"type\":\"content_block_delta\",\"delta\":{\"text\":\"Hel\"}}",
          finish |-> "{\"type\":\"message_stop\"}"]

ValidPayloads ==
    {Payloads(OpenAI).content, Payloads(OpenAI).tool_calls, Payloads(OpenAI).finish,
     Payloads(Anthropic).content, Payloads(Anthropic).finish}

parsedPayload(payload) ==
    CASE payload = Payloads(OpenAI).content ->
            Event(Undefined, "Hel", <<>>, Undefined, Undefined)
      [] payload = Payloads(OpenAI).tool_calls ->
            Event(Undefined, Undefined,
                  <<(<<OpenAIToolCall(1, "get_weather", BadArguments)>>)>>,
                  Undefined, Undefined)
      [] payload = Payloads(OpenAI).finish ->
            Event(Undefined, Undefined, <<>>, "stop", Undefined)
      [] payload = Payloads(Anthropic).content ->
            Event("content_block_delta", Undefined, <<>>, Undefined, "Hel")
      [] payload = Payloads(Anthropic).finish ->
            Event("message_stop", Undefined, <<>>, Undefined, Undefined)

\* JSON.parse(trimmed.slice(6)): <<value>>, or <<>> where it throws
parseEventData(payload) ==
    IF Len(payload) = 1 /\ payload[1] \in ValidPayloads
    THEN <<parsedPayload(payload[1])>>
    ELSE <<>>

\* the lines a provider writes, without their newline; some end in CR LF
StreamLines(adapter) ==
    {<<Prefix, Payloads(adapter).content>>,
     <<Prefix, Payloads(adapter).finish, Return>>,
     <<Prefix, Sentinel>>,
     <<Prefix, BadJSON>>,
     <<KeepAlive>>,
     <<Return>>}
    \cup IF adapter = OpenAI THEN {<<Prefix, Payloads(OpenAI).tool_calls>>} ELSE {}

RECURSIVE split(_)
\* text.split('\n')
split(text) ==
    IF \A i \in 1..Len(text) : text[i] # Newline
    THEN <<text>>
    ELSE LET i == CHOOSE k \in 1..Len(text) :
                      text[k] = Newline /\ \A j \in 1..(k - 1) : text[j] # Newline
         IN  <<SubSeq(text, 1, i - 1)>> \o split(SubSeq(text, i + 1, Len(text)))

\* line.trim()
trim(line) ==
    LET kept == {i \in 1..Len(line) : line[i] \notin Whitespace}
    IN  IF kept = {}
        THEN <<>>
        ELSE SubSeq(line,
                    CHOOSE i \in kept : \A j \in kept : i <= j,
                    CHOOSE i \in kept : \A j \in kept : j <= i)

\* trimmed.startsWith('data: ')
startsWithPrefix(trimmed) == Len(trimmed) >= 1 /\ trimmed[1] = Prefix

\* the empty catch block of both parsers: the error is dropped
catchRethrows(error) == error
catchParseError(error) == NoError

\* what one line yields: its chunks, whether it was the sentinel of the
\* OpenAI parser, and the error that leaves the loop
LineResult(yields, sentinel, error) ==
    [chunks |-> yields, sentinel |-> sentinel, error |-> error]

\* the body of the for loop of OpenAILLM.stream
openAILine(line) ==
    LET trimmed == trim(line)
    IN  IF trimmed = <<>> \/ trimmed = <<Prefix, Sentinel>>
        THEN LineResult(<<>>, trimmed # <<>>, NoError)
        ELSE IF ~startsWithPrefix(trimmed)
        THEN LineResult(<<>>, FALSE, NoError)
        ELSE LET parsed == parseEventData(Tail(trimmed))
             IN  IF parsed = <<>>
                 THEN LineResult(<<>>, FALSE, catchParseError(SyntaxErrorText))
                 ELSE LineResult(
                        (IF ~Falsy(parsed[1].content)
                         THEN <<Chunk(parsed[1].content, <<>>, FALSE)>> ELSE <<>>)
                        \o (IF parsed[1].tool_calls # <<>>
                            THEN <<Chunk(Undefined, parsed[1].tool_calls[1], FALSE)>>
                            ELSE <<>>)
                        \o (IF ~Falsy(parsed[1].finish_reason)
                            THEN <<Chunk(Undefined, <<>>, TRUE)>> ELSE <<>>),
                        FALSE, NoError)

\* the body of the for loop of AnthropicLLM.stream
anthropicLine(line) ==
    LET trimmed == trim(line)
    IN  IF trimmed = <<>> \/ ~startsWithPrefix(trimmed)
        THEN LineResult(<<>>, FALSE, NoError)
        ELSE LET parsed == parseEventData(Tail(trimmed))
             IN  IF parsed = <<>>
                 THEN LineResult(<<>>, FALSE, catchParseError(SyntaxErrorText))
                 ELSE LineResult(
                        (IF parsed[1].type = "content_block_delta" /\ ~Falsy(parsed[1].text)
                         THEN <<Chunk(parsed[1].text, <<>>, FALSE)>> ELSE <<>>)
                        \o (IF parsed[1].type = "message_stop"
                            THEN <<Chunk(Undefined, <<>>, TRUE)>> ELSE <<>>),
                        FALSE, NoError)

processLine(adapter, line) ==
    IF adapter = OpenAI THEN openAILine(line) ELSE anthropicLine(line)

\* the parser's progress through a body: the chunks yielded, whether the
\* sentinel was met, the chunks yielded after it, the error that ended it
Progress(yields, sentinel, after, error) ==
    [chunks |-> yields, sentinel |-> sentinel, after |-> after, error |-> error]

RECURSIVE processLines(_, _, _)
\* for (const line of lines): the loop stops at the first error thrown
processLines(adapter, textLines, sofar) ==
    IF textLines = <<>> \/ sofar.error # NoError
    THEN sofar
    ELSE LET one == processLine(adapter, Head(textLines))
         IN  processLines(adapter, Tail(textLines),
                 Progress(sofar.chunks \o one.chunks,
                          sofar.sentinel \/ one.sentinel,
                          sofar.after + (IF sofar.sentinel THEN Len(one.chunks) ELSE 0),
                          one.error))

\* buffer = lines.pop() || ''
carryOverDropped(textLines) == <<>>
carryOver(textLines) == textLines[Len(textLines)]

\* one turn of the while loop after reader.read() returned a value: the
\* buffer that is kept and the progress made
readValue(adapter, carried, text, sofar) ==
    LET textLines == split(carried \o text)
    IN  [buffer |-> carryOver(textLines),
         progress |-> processLines(adapter, SubSeq(textLines, 1, Len(textLines) - 1),
                                   sofar)]

(***************************************************************************)
(* One streamed response body read by the parser of the adapter.  The      *)
(* provider writes lines; the network hands them to reader.read() in       *)
(* pieces cut anywhere, also inside a line.                                *)
(***************************************************************************)
\* a releaseLock() placed after the while loop, outside any finally
releaseAfterLoop(releases, exit) == IF exit = "break" THEN releases + 1 ELSE releases

\* try { while ... } finally { reader.releaseLock() }: the block runs however
\* the try block is left, by the break at done, by a throw, or by the return
\* that ends a generator suspended at a yield
finallyBlock(releases, exit) == releases + 1

\* fetch resolved with a 2xx status and the reader was obtained
OpenStream ==
    /\ parserPc = "Idle"
    /\ parserPc' = "Reading"
    /\ UNCHANGED <<agentVars, raceVars, wireVars, memVars, pairVars, regVars, unsent, linesWritten, arrived,
                   bodyText, buffer, yielded, parserError, sentinelSeen,
                   readAfterSentinel, chunksAfterSentinel, splitLineYielded,
                   lockReleases, releasedAt>>

\* the provider writes one more line
WriteLine(line) ==
    /\ parserPc = "Reading"
    /\ unsent = <<>>
    /\ linesWritten < MaxLines
    /\ unsent' = Append(line, Newline)
    /\ linesWritten' = linesWritten + 1
    /\ UNCHANGED <<agentVars, raceVars, wireVars, memVars, pairVars, regVars, parserPc, arrived, bodyText,
                   buffer, yielded, parserError, sentinelSeen, readAfterSentinel,
                   chunksAfterSentinel, splitLineYielded,
                   lockReleases, releasedAt>>

\* one more piece of the body reaches the client
Transmit ==
    /\ parserPc = "Reading"
    /\ unsent # <<>>
    /\ arrived' = Append(arrived, Head(unsent))
    /\ unsent' = Tail(unsent)
    /\ UNCHANGED <<agentVars, raceVars, wireVars, memVars, pairVars, regVars, parserPc, linesWritten, bodyText,
                   buffer, yielded, parserError, sentinelSeen, readAfterSentinel,
                   chunksAfterSentinel, splitLineYielded,
                   lockReleases, releasedAt>>

\* reader.read() resolves with what has arrived; the lines it completes are
\* processed and their chunks yielded
ReadValue ==
    LET turn == readValue(llm, buffer, arrived,
                          Progress(yielded, sentinelSeen, chunksAfterSentinel, NoError))
    IN  /\ parserPc = "Reading"
        /\ arrived # <<>>
        /\ bodyText' = bodyText \o arrived
        /\ arrived' = <<>>
        /\ buffer' = turn.buffer
        /\ yielded' = turn.progress.chunks
        /\ sentinelSeen' = turn.progress.sentinel
        /\ chunksAfterSentinel' = turn.progress.after
        /\ readAfterSentinel' = (readAfterSentinel \/ sentinelSeen)
        /\ splitLineYielded' =
              (splitLineYielded
               \/ (buffer # <<>> /\ Newline \in {arrived[i] : i \in 1..Len(arrived)}
                   /\ processLine(llm, Head(split(buffer \o arrived))).chunks # <<>>))
        /\ parserError' = turn.progress.error
        /\ parserPc' = IF turn.progress.error = NoError THEN "Reading" ELSE "Failed"
        /\ IF turn.progress.error = NoError
           THEN UNCHANGED <<lockReleases, releasedAt>>
           ELSE /\ lockReleases' = finallyBlock(lockReleases, "throw")
                /\ releasedAt' = Len(turn.progress.chunks)
        /\ UNCHANGED <<agentVars, raceVars, wireVars, memVars, pairVars, regVars, unsent, linesWritten>>

\* the connection ends, what was not transmitted is lost; reader.read()
\* resolves with done and the generator returns
ReadDone ==
    /\ parserPc = "Reading"
    /\ arrived = <<>>
    /\ parserPc' = "Done"
    /\ readAfterSentinel' = (readAfterSentinel \/ sentinelSeen)
    /\ lockReleases' = finallyBlock(lockReleases, "break")
    /\ releasedAt' = Len(yielded)
    /\ UNCHANGED <<agentVars, raceVars, wireVars, memVars, pairVars, regVars, unsent, linesWritten, arrived,
                   bodyText, buffer, yielded, parserError, sentinelSeen,
                   chunksAfterSentinel, splitLineYielded>>

ParserNext ==
    \/ OpenStream
    \/ \E line \in StreamLines(llm) : WriteLine(line)
    \/ Transmit
    \/ ReadValue
    \/ ReadDone

\* the parser of an adapter reading one response body
ParserSpec == Init /\ [][ParserNext]_vars

\* the yield statements in the body of the for loop: content, toolCalls, finished
YieldsPerLine == 3

\* what a rejected reader.read() throws
ReadError == "network error"

\* reader.read() rejects: the error leaves the while loop and stream()
ReadFails ==
    /\ parserPc = "Reading"
    /\ parserError' = ReadError
    /\ parserPc' = "Failed"
    /\ lockReleases' = finallyBlock(lockReleases, "throw")
    /\ releasedAt' = Len(yielded)
    /\ UNCHANGED <<agentVars, raceVars, wireVars, memVars, pairVars, regVars, unsent, linesWritten, arrived,
                   bodyText, buffer, yielded, sentinelSeen, readAfterSentinel,
                   chunksAfterSentinel, splitLineYielded>>

\* reader.read() resolves with what has arrived and, while the lines are
\* processed, the consumer leaves its loop holding the c-th chunk of the j-th
\* line: the generator, suspended at that yield, is ended with a return
ConsumerReturns(j, c) ==
    LET textLines == split(buffer \o arrived)
        complete == SubSeq(textLines, 1, Len(textLines) - 1)
        before == processLines(llm, SubSeq(complete, 1, j - 1),
                               Progress(yielded, sentinelSeen, chunksAfterSentinel, NoError))
        one == processLine(llm, complete[j])
    IN  /\ parserPc = "Reading"
        /\ arrived # <<>>
        /\ j \in 1..Len(complete)
        /\ before.error = NoError
        /\ c \in 1..Len(one.chunks)
        /\ bodyText' = bodyText \o arrived
        /\ arrived' = <<>>
        /\ buffer' = carryOver(textLines)
        /\ yielded' = before.chunks \o SubSeq(one.chunks, 1, c)
        /\ sentinelSeen' = before.sentinel
        /\ chunksAfterSentinel' = before.after + (IF before.sentinel THEN c ELSE 0)
        /\ readAfterSentinel' = (readAfterSentinel \/ sentinelSeen)
        /\ splitLineYielded' =
              (splitLineYielded
               \/ (buffer # <<>> /\ Newline \in {arrived[i] : i \in 1..Len(arrived)}
                   /\ processLine(llm, Head(split(buffer \o arrived))).chunks # <<>>))
        /\ parserError' = NoError
        /\ parserPc' = "Stopped"
        /\ lockReleases' = finallyBlock(lockReleases, "return")
        /\ releasedAt' = Len(yielded')
        /\ UNCHANGED <<agentVars, raceVars, wireVars, memVars, pairVars, regVars, unsent, linesWritten>>

\* the lines of a body whose reading may end in any way
ReaderLines(adapter) ==
    {<<Prefix, Payloads(adapter).content>>,
     <<Prefix, Payloads(adapter).finish, Return>>,
     <<Prefix, BadJSON>>}

ReaderNext ==
    \/ OpenStream
    \/ \E line \in ReaderLines(llm) : WriteLine(line)
    \/ Transmit
    \/ ReadValue
    \/ ReadDone
    \/ ReadFails
    \/ \E j \in 1..MaxLines, c \in 1..YieldsPerLine : ConsumerReturns(j, c)

\* the parser of an adapter whose reading ends by the body closing, by a
\* failed read or by its consumer stopping
ReaderSpec == Init /\ [][ReaderNext]_vars

(***************************************************************************)
(* Two Agents, each built without a memory in its configuration, running   *)
(* chat() exchanges in any interleaving.  The SimpleDictMemory objects     *)
(* live in a heap; an Agent holds a reference to one.                      *)
(***************************************************************************)
\* config.memory || new SimpleDictMemory(): the reference of the new object
sharedStore(stores) == 1
newStore(stores) == Len(stores) + 1

\* new Agent({llm})
PairConstruct(a) ==
    /\ pairAgents[a].pc = "None"
    /\ pairHeap' = Append(pairHeap, <<>>)
    /\ pairAgents' = [pairAgents EXCEPT ![a] = PairAgent(newStore(pairHeap), "Idle", <<>>, <<>>, 0)]
    /\ UNCHANGED <<agentVars, raceVars, wireVars, memVars, sseVars, regVars>>

\* chat(userMessage) of one Agent, to the await of llm.chat
PairChatStart(a) ==
    LET me == pairAgents[a]
        userMsg == Message(User, a \o " asks " \o ToString(me.turns + 1), <<>>, Undefined)
        stored == addMessage(pairHeap[me.memory], userMsg, DefaultMaxMessages)
    IN  /\ me.pc = "Idle"
        /\ me.turns < MaxPairTurns
        /\ pairHeap' = [pairHeap EXCEPT ![me.memory] = stored]
        /\ pairAgents' = [pairAgents EXCEPT ![a] =
              PairAgent(me.memory, "AwaitingModel",
                        prepareMessages(stored, maxMemoryMessages, DefaultSystemPrompt),
                        Append(me.own, userMsg), me.turns)]
        /\ UNCHANGED <<agentVars, raceVars, wireVars, memVars, sseVars, regVars>>

\* llm.chat of one Agent resolves without tool calls: the assistant message
\* is stored and chat() returns
PairRespond(a) ==
    LET me == pairAgents[a]
        assistantMsg == Message(Assistant, a \o " is told " \o ToString(me.turns + 1),
                                <<>>, Undefined)
    IN  /\ me.pc = "AwaitingModel"
        /\ pairHeap' = [pairHeap EXCEPT ![me.memory] =
              addMessage(pairHeap[me.memory], assistantMsg, DefaultMaxMessages)]
        /\ pairAgents' = [pairAgents EXCEPT ![a] =
              PairAgent(me.memory, "Idle", me.request, Append(me.own, assistantMsg),
                        me.turns + 1)]
        /\ UNCHANGED <<agentVars, raceVars, wireVars, memVars, sseVars, regVars>>

\* llm.chat of one Agent rejects: chat() rethrows, the user message stays
PairFail(a) ==
    LET me == pairAgents[a]
    IN  /\ me.pc = "AwaitingModel"
        /\ pairAgents' = [pairAgents EXCEPT ![a] =
              PairAgent(me.memory, "Idle", me.request, me.own, me.turns + 1)]
        /\ UNCHANGED <<agentVars, raceVars, wireVars, memVars, sseVars, regVars, pairHeap>>

PairNext ==
    \/ \E a \in AgentIds : PairConstruct(a)
    \/ \E a \in AgentIds : PairChatStart(a)
    \/ \E a \in AgentIds : PairRespond(a)
    \/ \E a \in AgentIds : PairFail(a)

\* two Agents side by side
PairSpec == Init /\ [][PairNext]_vars

(***************************************************************************)
(* A ToolRegistry used on its own: tools are registered, also under a name *)
(* already present, and the registry is exported in both shapes.           *)
(***************************************************************************)
\* the configurations passed to createTool: two names, two versions of each
RegistryConfigs ==
    {[name |-> n, description |-> d] :
        n \in {"get_weather", "get_time"}, d \in {"first version", "second version"}}

\* registry.registerTool(createTool(config))
RegistryRegister(config) ==
    LET tool == createTool(config)
    IN  /\ tools' = registerTool(tools, tool)
        /\ lastRegistered' = <<tool>>
        /\ nameOrder' = IF \E i \in 1..Len(nameOrder) : nameOrder[i] = tool.name
                        THEN nameOrder
                        ELSE Append(nameOrder, tool.name)
        /\ UNCHANGED <<exchangeVars, raceVars, wireVars, memVars, sseVars, pairVars,
                       exported>>

\* registry.getOpenAITools() and registry.getAnthropicTools()
RegistryExport ==
    /\ exported' = Export(tools, getOpenAITools(tools), getAnthropicTools(tools))
    /\ UNCHANGED <<agentVars, raceVars, wireVars, memVars, sseVars, pairVars,
                   lastRegistered, nameOrder>>

RegistryNext ==
    \/ \E config \in RegistryConfigs : RegistryRegister(config)
    \/ RegistryExport

\* a ToolRegistry on its own
RegistrySpec == Init /\ [][RegistryNext]_vars

(***************************************************************************)
(* Properties of an exchange through chat(), checked under Spec.           *)
(***************************************************************************)
\* the exchange has settled: chat() returned or rejected
Settled == pc = "Idle" /\ Len(requests) >= 1

\* the first llm.chat of the exchange resolved
FirstResponseArrived == response # NoResponse

ToolMessages(messages) == SelectSeq(messages, LAMBDA m : m.role = Tool)

Failed(result) == result.error # Undefined

\* no call of the response carries an arguments text that is not JSON
WellFormedArguments(llmToolCalls) ==
    \A i \in 1..Len(llmToolCalls) :
        "function" \in DOMAIN llmToolCalls[i] =>
            llmToolCalls[i].function.arguments = GoodArguments

\* C1: whenever the stored history holds no system message, every request the
\* Agent sends to the adapter in an exchange, the follow-up request after the
\* tool results included, holds exactly one system message, and it is the
\* first element of the list.  Stated for the requests that pass the adapter's
\* validation and reach the provider.
C1_EveryRequestHasOneSystemMessageFirst ==
    ~HasSystem(memory) =>
        \A i \in 1..Len(requests) :
            requests[i].http =>
                /\ SystemCount(requests[i].messages) = 1
                /\ IsSystem(requests[i].messages[1])

\* C2: for every first response carrying N >= 1 tool calls, executeTool is
\* invoked exactly N times, in the order of the calls in the response, and N
\* tool-role messages have been stored when the follow-up request is issued.
\* Stated for responses whose calls carry well-formed arguments.
C2_EveryToolCallExecutedOnceInOrder ==
    (Settled /\ Len(response.toolCalls) >= 1 /\ WellFormedArguments(response.toolCalls)) =>
        /\ Len(executed) = Len(response.toolCalls)
        /\ \A i \in 1..Len(executed) : executed[i].callId = response.toolCalls[i].id
        /\ Len(requests) = 2
        /\ Len(ToolMessages(appended)) = Len(response.toolCalls)

\* C3: within one chat() exchange the messages are stored in this order and no
\* other: the user message; then, only if the response asked for tools, the
\* assistant message carrying the calls and one tool message per call in call
\* order; then the final assistant message.  A call that fails has stored a
\* prefix of that list.
C3_AppendOrder ==
    LET n == Len(convertedToolCalls)
    IN  Len(requests) >= 1 =>
            /\ Len(appended) >= 1
            /\ appended[1].role = User
            /\ memory = historyAtStart \o appended
            /\ IF Len(appended) >= 2 /\ appended[2].toolCalls # <<>>
               THEN /\ Len(response.toolCalls) >= 1
                    /\ appended[2].role = Assistant
                    /\ appended[2].toolCalls = convertedToolCalls
                    /\ Len(appended) \in {2 + n, 3 + n}
                    /\ \A i \in 1..n :
                          /\ appended[2 + i].role = Tool
                          /\ appended[2 + i].toolCallId = convertedToolCalls[i].callId
                    /\ Len(appended) = 3 + n =>
                          /\ appended[3 + n].role = Assistant
                          /\ appended[3 + n].toolCalls = <<>>
               ELSE /\ Len(appended) <= 2
                    /\ Len(appended) = 2 =>
                          /\ appended[2].role = Assistant
                          /\ Len(response.toolCalls) = 0
            /\ outcome.kind = "returned" =>
                  /\ Len(appended) = IF n >= 1 THEN 3 + n ELSE 2
                  /\ appended[Len(appended)].content = outcome.content

\* a chat() that asked for two tools has returned
C3_Witness ==
    /\ Settled
    /\ outcome.kind = "returned"
    /\ Len(convertedToolCalls) = 2
    /\ Len(appended) = 5

\* C4: after any exchange the Agent is reusable: a later chat() whose user
\* message is not empty proceeds to a model request.  Stated for a session
\* whose user messages are all non-empty: the first request of each of its
\* exchanges passes the adapter's validation and is sent.
C4_LaterChatReachesTheProvider ==
    (/\ Len(requests) >= 1
     /\ \A i \in 1..Len(memory) : memory[i].role = User => ~Falsy(memory[i].content))
        => requests[1].http

\* C5: if a tool call of a batch fails (not registered, the handler throws or
\* times out), every other call of the batch is still executed, a tool message
\* carrying the error text is stored for the failed call, the follow-up request
\* is still issued to the provider, and chat() does not throw unless the
\* provider fails.
C5_FailedToolDoesNotAbortTheExchange ==
    (Settled /\ \E i \in 1..Len(toolResults) : Failed(toolResults[i])) =>
        /\ Len(executed) = Len(convertedToolCalls)
        /\ \A i \in 1..Len(toolResults) :
              Failed(toolResults[i]) =>
                  \E j \in 1..Len(appended) :
                      /\ appended[j].role = Tool
                      /\ appended[j].toolCallId = toolResults[i].callId
                      /\ appended[j].content = toolResults[i].error
        /\ Len(requests) = 2
        /\ requests[2].http
        /\ adapterError \notin AdapterErrors(llm) => outcome.kind = "returned"

\* C7: each chat() call issues at most two adapter requests, the second one
\* exactly when the first response carries at least one tool call; no handler
\* runs for the tool calls of the second response, which are added to the
\* returned toolCalls.  The second part is stated for first responses whose
\* calls carry well-formed arguments.
C7_SecondRequestExactlyWhenToolsRequested ==
    /\ Len(requests) <= 2
    /\ Len(executed) <= Len(response.toolCalls)
    /\ (Settled /\ FirstResponseArrived /\ WellFormedArguments(response.toolCalls)) =>
          (Len(requests) = 2 <=> Len(response.toolCalls) >= 1)
    /\ outcome.kind = "returned" => Len(outcome.toolCalls) >= Len(convertedToolCalls)

\* C8: when either adapter request of an exchange fails, chat() rejects with
\* that same error, and memory holds exactly what was stored before the
\* failure: the history of the session, the user message of the failed
\* exchange and whatever the exchange stored after it.
C8_AdapterFailurePropagatesAndKeepsMemory ==
    (Settled /\ adapterError # NoError) =>
        /\ outcome.kind = "rejected"
        /\ outcome.error = adapterError
        /\ memory = historyAtStart \o appended
        /\ appended[1].role = User
        /\ Len(requests) = 2 =>
              Len(appended) = 2 + Len(convertedToolCalls)

\* the follow-up request failed at the provider after two tools had run
C8_Witness ==
    /\ Settled
    /\ adapterError \in AdapterErrors(llm)
    /\ Len(requests) = 2
    /\ Len(appended) = 4
    /\ outcome.kind = "rejected"

(***************************************************************************)
(* Properties of an exchange through stream(), checked under StreamSpec.   *)
(***************************************************************************)
RECURSIVE ConcatDeltas(_)
\* the content deltas of a chunk sequence, concatenated in order
ConcatDeltas(chunks) ==
    IF chunks = <<>> THEN ""
    ELSE (IF Falsy(Head(chunks).content) THEN "" ELSE Head(chunks).content)
         \o ConcatDeltas(Tail(chunks))

\* the consumer has received the finished chunk or the end of the stream
ConsumerSawTheEnd ==
    /\ Settled
    /\ \/ outcome.kind = "completed"
       \/ /\ outcome.kind = "stopped"
          /\ forwarded[Len(forwarded)].finished

\* C9: for every run of stream() in which the adapter yields content deltas
\* and then a finished chunk (or the stream closes), once the consumer has
\* received the finished chunk (or the end of the stream) memory holds exactly
\* one new assistant message, whose content is the concatenation of the content
\* deltas in order, whether the consumer keeps iterating after the finished
\* chunk or stops iterating on it.
C9_StreamCommitsTheConcatenatedDeltas ==
    (ConsumerSawTheEnd /\ ConcatDeltas(forwarded) # "") =>
        /\ Len(appended) = 2
        /\ appended[2] = Message(Assistant, ConcatDeltas(forwarded), <<>>, Undefined)
        /\ memory = historyAtStart \o appended

(***************************************************************************)
(* Properties of executeTool, checked under ToolSpec.                      *)
(***************************************************************************)
\* executeTool has returned for a registered tool, whose timer it had armed
ToolCallReturned ==
    /\ racePc = "Idle"
    /\ currentCall # NoCall
    /\ timeoutPromise # NoTimer

\* the handler of the current call is done only after the timeout has elapsed
CompletesAfterTimeout ==
    /\ handlerBehaviour.settles # "never"
    /\ handlerBehaviour.dur > timeoutPromise.delay

CompletesBeforeTimeout ==
    /\ handlerBehaviour.settles # "never"
    /\ handlerBehaviour.dur < timeoutPromise.delay

\* C6: if a tool handler completes only after the tool's timeout has elapsed,
\* executeTool returns the error "Tool execution timeout" and no result,
\* whatever the handler returns in the end; if the handler completes before
\* the timeout, its outcome is the one returned.
C6_LateHandlerYieldsTimeout ==
    ToolCallReturned =>
        /\ CompletesAfterTimeout =>
              raceResult = ToolResult(currentCall.callId, Undefined, TimeoutError)
        /\ CompletesBeforeTimeout =>
              raceResult = handlerResult(currentCall, handlerBehaviour)

(***************************************************************************)
(* Properties of an adapter call, checked under AdapterSpec.               *)
(***************************************************************************)
\* the list is empty or one of its messages lacks a role or content
InvalidList(messages) ==
    \/ Len(messages) = 0
    \/ \E i \in 1..Len(messages) :
          \/ messages[i].role \in {"", Undefined}
          \/ messages[i].content \in {"", Undefined}

\* C10: if the message list passed to an adapter's chat() or stream() is
\* empty, or a message in it lacks a role or content, the call fails with an
\* error and no HTTP request is made.
C10_InvalidListFailsBeforeAnyRequest ==
    (wireMethod # "none" /\ InvalidList(wireMessages)) =>
        /\ httpRequests = 0
        /\ wirePc \in {"Idle", "Created"}
        /\ wirePc = "Idle" =>
              /\ wireOutcome.kind = "rejected"
              /\ wireOutcome.error \in {EmptyMessagesError, RoleContentError}

\* stream() was iterated with a list whose second message has no content
C10_Witness ==
    /\ wireMethod = "stream"
    /\ wirePc = "Idle"
    /\ Len(wireMessages) = 2
    /\ ~InvalidList(<<wireMessages[1]>>)
    /\ wireMessages[2].content = Undefined
    /\ wireOutcome = WireOutcome("rejected", RoleContentError)
    /\ httpRequests = 0

(***************************************************************************)
(* Further properties of an exchange through chat(), checked under Spec.   *)
(***************************************************************************)
\* an assistant turn that carries tool calls and has empty-string content
ToolCallOnlyTurn(m) == m.role = Assistant /\ m.content = "" /\ m.toolCalls # <<>>

\* the list holds a tool-call-only turn, and every other message of it has a
\* role and non-empty content
ValidButForToolCallTurns(messages) ==
    /\ \E j \in 1..Len(messages) : ToolCallOnlyTurn(messages[j])
    /\ \A j \in 1..Len(messages) :
          (Falsy(messages[j].role) \/ Falsy(messages[j].content))
              => ToolCallOnlyTurn(messages[j])

\* C11: a message list containing an assistant turn that carries tool calls
\* and has empty-string content passes the adapter's validation, so the
\* follow-up request of an exchange whose first response had empty content and
\* at least one tool call is sent to the provider rather than rejected.
C11_ToolCallOnlyTurnPassesValidation ==
    \A i \in 1..Len(requests) :
        ValidButForToolCallTurns(requests[i].messages) => requests[i].http

\* the ToolCalls are the conversions of the provider's calls, in order
ConvertedFrom(toolCalls, llmToolCalls) ==
    /\ Len(toolCalls) = Len(llmToolCalls)
    /\ \A i \in 1..Len(toolCalls) :
          /\ toolCalls[i].callId = llmToolCalls[i].id
          /\ toolCalls[i].name = llmToolCalls[i].function.name

\* C12: chat() returns, and stores as the last assistant message, the first
\* response's content when that response carried no tool calls and the
\* follow-up response's content otherwise; the returned toolCalls are empty
\* when no tool was requested and otherwise all tool calls of the exchange in
\* order; the returned usage is the usage of the first response, never that of
\* the follow-up.
C12_ReturnedContentToolCallsAndUsage ==
    outcome.kind = "returned" =>
        LET toolsRequested == Len(response.toolCalls) >= 1
            final == IF toolsRequested THEN followupResponse.content ELSE response.content
            last == appended[Len(appended)]
        IN  /\ outcome.content = final
            /\ last = Message(Assistant, final, <<>>, Undefined)
            /\ memory[Len(memory)] = last
            /\ IF toolsRequested
               THEN ConvertedFrom(outcome.toolCalls,
                                  response.toolCalls \o followupResponse.toolCalls)
               ELSE outcome.toolCalls = <<>>
            /\ outcome.usage = response.usage

\* chat() returned after a tool round in which the two responses differ in
\* content and usage and both carry a tool call
C12_Witness ==
    /\ Settled
    /\ outcome.kind = "returned"
    /\ Len(response.toolCalls) = 1
    /\ Len(followupResponse.toolCalls) = 1
    /\ followupResponse.content # response.content
    /\ response.usage # <<>>
    /\ followupResponse.usage = <<>>

\* C13: the tool message stored for a successful tool call has as content
\* exactly the text the handler returned: a handler returning the string s
\* yields a tool message whose content is s; and the returned toolCalls of an
\* exchange with one requested tool hold exactly one entry.
C13_ToolMessageCarriesTheHandlersText ==
    /\ \A i \in 1..Len(toolResults), j \in 1..Len(appended) :
          (/\ appended[j].role = Tool
           /\ appended[j].toolCallId = toolResults[i].callId
           /\ ~Failed(toolResults[i])
           /\ toolResults[i].result # Undefined)
              => appended[j].content = toolResults[i].result
    /\ (/\ outcome.kind = "returned"
        /\ Len(response.toolCalls) = 1
        /\ Len(followupResponse.toolCalls) = 0)
          => Len(outcome.toolCalls) = 1

(***************************************************************************)
(* Properties of the memory stores and of Agent.getMessages, checked       *)
(* under MemorySpec.                                                       *)
(***************************************************************************)
NonSystem(msgs) == SelectSeq(msgs, LAMBDA m : ~IsSystem(m))

\* s is the last Len(s) elements of t
IsSuffix(s, t) ==
    /\ Len(s) <= Len(t)
    /\ s = SubSeq(t, Len(t) - Len(s) + 1, Len(t))

\* C14: for every stored history and every configured maximum N >= 1,
\* Agent.getMessages returns at most N messages: every stored system message
\* and the most recent non-system messages in stored order; trimming never
\* drops a stored system message.
C14_ReadHoldsAtMostNAndEverySystemMessage ==
    lastRead # NoRead =>
        /\ Len(lastRead.result) <= lastRead.n
        /\ SelectSeq(lastRead.result, IsSystem) = SelectSeq(lastRead.stored, IsSystem)
        /\ IsSuffix(NonSystem(lastRead.result), NonSystem(lastRead.stored))

\* C15: the memory store is ordered and append-only: for SimpleDictMemory and
\* DictMemory, a message once added stays readable, in the order of the
\* additions, until the store is cleared; no addition removes or reorders a
\* message added before.
C15_StoresAreAppendOnly ==
    /\ simpleMessages = appendLog["simple"]
    /\ \A sessionId \in SessionIds :
          sessionMessages(sessions, sessionId) = appendLog[sessionId]

\* the fields of a declaration in each provider's shape
OpenAIShape == DOMAIN getOpenAITools(<<WeatherTool>>)[1]
AnthropicShape == DOMAIN getAnthropicTools(<<WeatherTool>>)[1]

\* C16: the tool declarations the Agent sends with a request have the shape of
\* the adapter in use: the {type, function} wrapper when the Agent's LLM is the
\* OpenAI adapter, the flat {name, description, input_schema} form when it is
\* the Anthropic adapter.
C16_DeclarationsHaveTheAdaptersShape ==
    \A i \in 1..Len(requests) :
        \A k \in 1..Len(requests[i].tools) :
            DOMAIN requests[i].tools[k] =
                (IF llm = OpenAI THEN OpenAIShape ELSE AnthropicShape)

\* the name a declaration carries, in either shape
DeclaredName(decl) ==
    IF "function" \in DOMAIN decl THEN decl.function.name ELSE decl.name

\* C17: while an exchange runs, if the tool registry is empty no request of the
\* exchange has a tools field or a tool_choice field; if it is not empty the
\* first request, when it is sent, has a tools field with one declaration per
\* registered tool, in registration order.
C17_ToolsFieldExactlyWhenToolsAreRegistered ==
    (pc # "Idle" /\ requests # <<>>) =>
        IF tools = <<>>
        THEN \A i \in 1..Len(requests) :
                requests[i].fields = {} /\ requests[i].tools = <<>>
        ELSE requests[1].http =>
                /\ "tools" \in requests[1].fields
                /\ Len(requests[1].tools) = Len(tools)
                /\ \A k \in 1..Len(tools) :
                      DeclaredName(requests[1].tools[k]) = tools[k].name

\* a tool round with one registered tool: the first request went out with it
C17_Witness ==
    /\ pc # "Idle"
    /\ Len(requests) = 2
    /\ tools # <<>>
    /\ requests[1].http
    /\ Len(requests[1].tools) = 1

(***************************************************************************)
(* Properties of the stream parsers, checked under ParserSpec.             *)
(***************************************************************************)
\* C18: in OpenAILLM.stream, once the line "data: [DONE]" has been processed
\* the body is not read any further and no chunk is yielded after it, also
\* when data lines follow the sentinel in the same read or in later reads.
C18_NothingIsReadOrYieldedAfterTheSentinel ==
    (llm = OpenAI /\ sentinelSeen) =>
        (~readAfterSentinel /\ chunksAfterSentinel = 0)

NoProgress == Progress(<<>>, FALSE, 0, NoError)

\* the chunks the parser yields when the whole text comes in one read
ChunksOfOneRead(adapter, text) == readValue(adapter, <<>>, text, NoProgress).progress.chunks

\* C19: for both stream parsers, the chunks yielded depend only on the
\* concatenated text of the body, not on its division between reads: they are
\* the chunks one read of the whole text yields, so a line divided between
\* reads is processed once, as one line, after its newline has arrived.
C19_ChunksDependOnlyOnTheBodyText ==
    yielded = ChunksOfOneRead(llm, bodyText)

\* a data line came in two or more reads and has yielded its chunk
C19_Witness ==
    /\ splitLineYielded
    /\ Len(yielded) >= 2

\* the complete lines of a text
CompleteLines(text) == SubSeq(split(text), 1, Len(split(text)) - 1)

\* a non-empty line without the data prefix, or one whose payload JSON.parse rejects
IsBadLine(line) ==
    LET trimmed == trim(line)
    IN  /\ trimmed # <<>>
        /\ (~startsWithPrefix(trimmed) \/ parseEventData(Tail(trimmed)) = <<>>)

\* C20: a line whose payload is not valid JSON, and a line without the data
\* prefix, yield no chunk and raise no error: the parser goes on, and the
\* chunks yielded are those of the body with the bad lines taken out.
C20_BadLinesAreSkippedWithoutError ==
    /\ parserError = NoError
    /\ parserPc # "Failed"
    /\ yielded = processLines(llm, SelectSeq(CompleteLines(bodyText),
                                             LAMBDA line : ~IsBadLine(line)),
                              NoProgress).chunks

\* the parser has met a payload that is not JSON and a line without the
\* prefix, and a valid data line after them has yielded its chunk
C20_Witness ==
    LET processed == CompleteLines(bodyText)
    IN  /\ Len(processed) = 3
        /\ trim(processed[1]) = <<Prefix, BadJSON>>
        /\ trim(processed[2]) = <<KeepAlive>>
        /\ processLine(llm, processed[3]).chunks # <<>>
        /\ yielded # <<>>

(***************************************************************************)
(* stream() against chat(), checked under StreamSpec.                      *)
(***************************************************************************)
\* what chat() adds to memory in an exchange without tool calls: the user
\* message, then the assistant message with the content returned
chatTurn(userMessage, content) ==
    <<Message(User, userMessage, <<>>, Undefined),
      Message(Assistant, content, <<>>, Undefined)>>

\* stream() ran to its end and the adapter yielded no tool-call fragment
StreamedWithoutTools ==
    /\ Settled
    /\ outcome.kind = "completed"
    /\ \A i \in 1..Len(forwarded) : forwarded[i].toolCalls = <<>>

\* C21: for a provider that requests no tools and whose deltas concatenate to
\* the content its chat() returns, stream() consumed to its end leaves in
\* memory the messages chat() leaves for the same input: the user message and
\* an assistant message whose content is the concatenation of the forwarded
\* deltas, also when that content is the empty string.
C21_StreamLeavesWhatChatLeaves ==
    StreamedWithoutTools =>
        /\ appended = chatTurn(appended[1].content, ConcatDeltas(forwarded))
        /\ memory = historyAtStart \o appended

(***************************************************************************)
(* More properties of executeTool, checked under ToolSpec.                 *)
(***************************************************************************)
\* executeTool has returned for a name the registry does not hold
MissingToolReturned ==
    /\ racePc = "Idle"
    /\ currentCall # NoCall
    /\ getTool(tools, currentCall.name) = <<>>
    /\ timeoutPromise = NoTimer

\* C22: executeTool for a name that is not registered returns, without
\* throwing, a ToolResult whose error is "Tool '<name>' not found", with no
\* result, after no time has passed on the call's clock, and calls no handler.
C22_MissingToolYieldsNotFound ==
    MissingToolReturned =>
        /\ raceResult.callId = currentCall.callId
        /\ currentCall.name = "doThing" => raceResult.error = "Tool 'doThing' not found"
        /\ currentCall.name = "get_weather" =>
               raceResult.error = "Tool 'get_weather' not found"
        /\ raceResult.result = Undefined
        /\ clock >= 0
        /\ ~handlerStarted
        /\ executionPromise = "none"

\* a tool is registered and a call names another one
C22_Witness ==
    /\ MissingToolReturned
    /\ tools # <<>>
    /\ currentCall.name = "doThing"
    /\ raceResult.error = "Tool 'doThing' not found"

\* executeTool has returned a ToolResult
ExecuteToolReturned ==
    /\ racePc = "Idle"
    /\ currentCall # NoCall
    /\ raceResult # NoResult

\* C23: every ToolResult returned by executeTool has exactly one of result and
\* error set, whether the handler returned a value or none, threw (also with an
\* empty message), the timeout fired, or the tool is missing.
C23_ExactlyOneOfResultAndError ==
    ExecuteToolReturned =>
        (raceResult.result # Undefined) # (raceResult.error # Undefined)

\* handlers that have been started and have not finished
HandlersInProgress ==
    abandoned.late + abandoned.stuck + (IF executionPromise = "pending" THEN 1 ELSE 0)

\* C24: at most one tool handler is in progress at any moment: the handler of
\* the next call is started only after the handler of the call before has
\* finished, also when that call ended by timeout.
C24_AtMostOneHandlerInProgress ==
    HandlersInProgress <= 1

(***************************************************************************)
(* The two adapters compared, checked under Spec.                          *)
(***************************************************************************)
\* C25: a response of the Anthropic adapter that requests tool invocations is
\* resolved as one of the OpenAI adapter is: each tool_use block is converted
\* to the ToolCall of its name, input and id, and chat() does not fail on the
\* conversion.
C25_AnthropicToolCallsAreConverted ==
    (llm = Anthropic /\ FirstResponseArrived /\ Len(response.toolCalls) >= 1) =>
        /\ outcome.error # TypeErrorText
        /\ Len(convertedToolCalls) = Len(response.toolCalls)
        /\ \A i \in 1..Len(convertedToolCalls) :
              /\ convertedToolCalls[i].name = response.toolCalls[i].name
              /\ convertedToolCalls[i].callId = response.toolCalls[i].id

(***************************************************************************)
(* stream() and the tools, checked under StreamSpec.                       *)
(***************************************************************************)
\* C26: stream() never calls executeTool and never issues a second adapter
\* request; in the step in which the adapter yields a chunk, a tool-call
\* fragment included, that chunk is handed to the caller.
C26_StreamResolvesNoTools ==
    [][/\ executed' = <<>>
       /\ toolResults' = <<>>
       /\ Len(requests') <= 1
       /\ streamed' # streamed =>
             /\ Len(forwarded') = Len(forwarded) + 1
             /\ forwarded'[Len(forwarded')] \in StreamChunks(llm)]_vars

\* a stream that carried a tool-call fragment has ended
C26_Witness ==
    /\ Settled
    /\ outcome.kind = "completed"
    /\ tools # <<>>
    /\ \E i \in 1..Len(forwarded) : forwarded[i].toolCalls # <<>>

(***************************************************************************)
(* Further properties of an adapter call, checked under AdapterSpec.       *)
(***************************************************************************)
\* the adapter call has ended: chat() settled, or stream() stopped
AdapterCallEnded == wireMethod # "none" /\ wirePc = "Idle"

\* C27, as stated: every chat() or stream() call of an adapter makes exactly
\* one HTTP request.
C27_ExactlyOneRequestPerCall ==
    AdapterCallEnded => httpRequests = 1

\* C27, amended: a chat() or stream() call of an adapter makes at most one HTTP
\* request, and exactly one when its message list passes validation; a non-2xx
\* status makes the call fail with an error carrying the status and the body,
\* and no request follows a failure.
C27_AtMostOneRequestAndNoRetry ==
    /\ httpRequests <= 1
    /\ (AdapterCallEnded /\ ~InvalidList(wireMessages)) => httpRequests = 1
    /\ wirePc = "AwaitingHTTP" => httpRequests = 1
    /\ (AdapterCallEnded /\ wireOutcome.kind = "rejected" /\ httpRequests = 1) =>
          wireOutcome.error \in
              {IF llm = OpenAI THEN "OpenAI API error: 500 - overloaded"
                               ELSE "Anthropic API error: 500 - overloaded",
               "fetch failed"}

\* stream() was iterated, its request was answered with status 500
C27_Witness ==
    /\ AdapterCallEnded
    /\ wireMethod = "stream"
    /\ llm = Anthropic
    /\ wireOutcome = WireOutcome("rejected", "Anthropic API error: 500 - overloaded")
    /\ httpRequests = 1

(***************************************************************************)
(* Two Agents side by side, checked under PairSpec.                        *)
(***************************************************************************)
\* the messages of a list, as a set
MessagesOf(list) == {list[i] : i \in 1..Len(list)}

\* C28: two Agents that each own their memory, running chat() exchanges in
\* any interleaving, do not affect each other: the memory of each holds
\* exactly the messages of its own exchanges in its own order, and no request
\* of one holds a message of the other.
C28_AgentsDoNotShareMemory ==
    \A a \in AgentIds :
        pairAgents[a].pc # "None" =>
            /\ pairHeap[pairAgents[a].memory] = pairAgents[a].own
            /\ \A b \in AgentIds \ {a} :
                  MessagesOf(pairAgents[a].request) \cap MessagesOf(pairAgents[b].own) = {}

\* both Agents are in an exchange at once, each after an exchange of its own
\* that the other's overlapped
C28_Witness ==
    /\ \A a \in AgentIds : pairAgents[a].pc = "AwaitingModel" /\ pairAgents[a].turns = 1
    /\ \A a \in AgentIds : Len(pairAgents[a].own) = 3

(***************************************************************************)
(* Properties of the registry, checked under RegistrySpec.                 *)
(***************************************************************************)
\* the names of a tool list, as a set
NamesOf(list) == {list[i].name : i \in 1..Len(list)}

\* C29: registering a tool under a name already present replaces the earlier
\* tool: getTool of the name returns the tool registered last, listTools has
\* exactly one entry per distinct name registered, and registering the same
\* tool once more leaves the registry as it is.
C29_LastRegistrationWins ==
    lastRegistered # <<>> =>
        /\ getTool(tools, lastRegistered[1].name) = lastRegistered
        /\ Len(listTools(tools)) = Len(nameOrder)
        /\ NamesOf(listTools(tools)) = {nameOrder[i] : i \in 1..Len(nameOrder)}
        /\ Cardinality(NamesOf(listTools(tools))) = Len(listTools(tools))
        /\ registerTool(tools, lastRegistered[1]) = tools

\* the name registered first was registered again, in another version, after
\* a second name
C29_Witness ==
    /\ Len(nameOrder) = 2
    /\ lastRegistered # <<>>
    /\ lastRegistered[1].name = nameOrder[1]
    /\ lastRegistered[1].description = "second version"

\* C30: for every registered tool, getOpenAITools and getAnthropicTools each
\* produce exactly one declaration, in the order in which the names were first
\* registered, whose name and description are the tool's own; the export
\* leaves the registry as it was.
C30_ExportKeepsNamesAndDescriptions ==
    [][exported' # exported =>
          /\ tools' = tools
          /\ exported'.read = tools
          /\ Len(exported'.openai) = Len(tools)
          /\ Len(exported'.anthropic) = Len(tools)
          /\ \A k \in 1..Len(tools) :
                /\ exported'.openai[k].function.name = tools[k].name
                /\ exported'.openai[k].function.description = tools[k].description
                /\ exported'.anthropic[k].name = tools[k].name
                /\ exported'.anthropic[k].description = tools[k].description
                /\ tools[k].name = nameOrder[k]]_vars

\* two tools were exported, the first of them registered in its second version
C30_Witness ==
    /\ Len(exported.read) = 2
    /\ exported.read = tools
    /\ exported.anthropic[1].description = "second version"
    /\ exported.openai[2].function.name = nameOrder[2]

(***************************************************************************)
(* The request body of an adapter call, checked under BodySpec.            *)
(***************************************************************************)
\* the contents of a list of messages, in order
ContentsOf(messages) == [i \in 1..Len(messages) |-> messages[i].content]

\* C31: in the body built by AnthropicLLM no entry of messages has the system
\* role, the content of every system message is in the system field, and the
\* other messages are in messages in their order; in the body built by
\* OpenAILLM every message, system included, is in messages, in its place.
C31_SystemMessagesAreRelocated ==
    wireBody # <<>> =>
        LET data == wireBody[1]
        IN  IF llm = Anthropic
            THEN /\ \A i \in 1..Len(data.messages) : data.messages[i].role # System
                 /\ ContentsOf(data.messages) = ContentsOf(NonSystem(wireMessages))
                 /\ \A i \in 1..Len(wireMessages) :
                        wireMessages[i].role = System =>
                            data.system = <<wireMessages[i].content>>
            ELSE /\ Len(data.messages) = Len(wireMessages)
                 /\ \A i \in 1..Len(wireMessages) :
                        /\ data.messages[i].role = wireMessages[i].role
                        /\ data.messages[i].content = wireMessages[i].content
                 /\ data.system = <<>>

(***************************************************************************)
(* The tool messages of an exchange, checked under Spec.                   *)
(***************************************************************************)
\* the tool messages appended so far in the current exchange
ToolMessagesAppended == SelectSeq(appended, LAMBDA m : m.role = Tool)

\* C32: every result of executeTool carries the callId of the call it was
\* given, and the tool messages appended in an exchange answer the tool calls
\* of the model's response one for one, in their order, each with the id of
\* its call as toolCallId.
C32_ToolMessagesEchoCallIds ==
    /\ Len(toolResults) <= Len(convertedToolCalls)
    /\ \A i \in 1..Len(toolResults) : toolResults[i].callId = convertedToolCalls[i].callId
    /\ ToolMessagesAppended # <<>> =>
          /\ Len(ToolMessagesAppended) = Len(response.toolCalls)
          /\ \A i \in 1..Len(ToolMessagesAppended) :
                ToolMessagesAppended[i].toolCallId = response.toolCalls[i].id

\* two tool calls were answered, one by a missing tool and one by a timeout
C32_Witness ==
    /\ Len(ToolMessagesAppended) = 2
    /\ ToolMessagesAppended[1].toolCallId = CallId(1)
    /\ ToolMessagesAppended[2].toolCallId = CallId(2)
    /\ \E i \in 1..2 : toolResults[i].error = TimeoutError
    /\ \E i \in 1..2 : toolResults[i].error = NotFoundError(convertedToolCalls[i].name)

(***************************************************************************)
(* DictMemory.getMessages, checked under DictSpec.                         *)
(***************************************************************************)
\* the caller has not changed the array of the last read
Untouched ==
    /\ dictRead # NoDictRead
    /\ \A i \in 1..Len(dictRead.messages) : dictRead.messages[i].content # "mine"

\* C33: getMessages(sessionId, limit) returns at most limit messages, the last
\* limit messages of the session in append order, for every limit >= 0;
\* without a limit it returns all of them; the array returned is a copy, a
\* change made to it leaves the store as it was.
C33_ReadReturnsLastLimitMessages ==
    /\ Untouched =>
          IF dictRead.limit # <<>>
          THEN /\ Len(dictRead.messages) <= dictRead.limit[1]
               /\ dictRead.messages =
                      SubSeq(dictRead.stored,
                             Max(Len(dictRead.stored) - dictRead.limit[1], 0) + 1,
                             Len(dictRead.stored))
          ELSE dictRead.messages = dictRead.stored
    /\ dictRead # NoDictRead => ~dictRead.alias /\ ~dictRead.storeChanged

(***************************************************************************)
(* executeTool comes back, checked under ToolLiveSpec.                     *)
(***************************************************************************)
\* what executeTool handed back is a ToolResult
IsToolResult(r) == DOMAIN r = DOMAIN NoResult

\* executeTool has returned for a tool that is registered
ExecuteToolCameBack == racePc = "Idle" /\ handlerStarted

\* C34: executeTool always eventually returns a ToolResult and never rejects,
\* whether the handler returns a value, throws, returns a promise that rejects
\* or returns one that never settles; in the last case the result is the
\* timeout error, at the moment the tool's timeout has elapsed.
C34_ExecuteToolAlwaysResolves ==
    /\ [](IsToolResult(raceResult))
    /\ []((ExecuteToolCameBack /\ handlerBehaviour.settles = "never") =>
              /\ raceResult.error = TimeoutError
              /\ clock = timeoutPromise.delay
              /\ timeoutPromise.delay \in {timerDelay(createTool(c)) : c \in ToolConfigs})
    /\ (racePc = "Racing") ~> (racePc = "Idle" /\ raceResult # NoResult)

\* the handler's promise never settled and executeTool returned the timeout error
C34_Witness ==
    /\ ExecuteToolCameBack
    /\ handlerBehaviour.settles = "never"
    /\ raceResult = ToolResult(CallId(1), Undefined, TimeoutError)

(***************************************************************************)
(* The timers of executeTool, checked under ToolSpec.                      *)
(***************************************************************************)
\* the timeout timers that have been started and have not fired
PendingTimers == staleTimers + (IF timeoutPromise.state = "pending" THEN 1 ELSE 0)

\* C35: once executeTool has returned no timeout timer it started is pending:
\* whenever no execution is in progress the number of pending timers is zero.
C35_NoTimerPendingAfterReturn ==
    racePc = "Idle" => PendingTimers = 0

(***************************************************************************)
(* The system prompt and the memory, checked under Spec.                   *)
(***************************************************************************)
\* the caller's own system message, as Agent.addMessage stores it
CallerSystemMessage == Message(System, CallerSystemPrompt, <<>>, Undefined)

EventsNamed(names) == {i \in 1..Len(events) : events[i].name \in names}

LastOf(s, n) == SubSeq(s, Len(s) - Min(Len(s), n) + 1, Len(s))

\* C38: after addMessage returns, SimpleDictMemory and each session of
\* DictMemory hold at most maxMessages messages: the most recently added ones,
\* in the order they were added, for every maxMessages >= 0.
C38_StoresKeepTheLastMaxMessages ==
    /\ Len(simpleMessages) <= storeMaxMessages
    /\ simpleMessages = LastOf(appendLog["simple"], storeMaxMessages)
    /\ \A sessionId \in SessionIds :
          /\ Len(sessionMessages(sessions, sessionId)) <= storeMaxMessages
          /\ sessionMessages(sessions, sessionId) =
                 LastOf(appendLog[sessionId], storeMaxMessages)

(***************************************************************************)
(* The reader lock of a stream, checked under ReaderSpec.                  *)
(***************************************************************************)
\* stream() has ended after it obtained the reader
ReadingEnded == parserPc \in {"Done", "Failed", "Stopped"}

\* C39: however stream() ends once it has the reader (the body closes, a read
\* fails, the consumer stops early), the reader lock is released exactly once,
\* not before the end, and no chunk is yielded after the release.
C39_ReaderLockReleasedExactlyOnce ==
    /\ lockReleases = (IF ReadingEnded THEN 1 ELSE 0)
    /\ ReadingEnded => Len(yielded) = releasedAt

\* the consumer stopped at the second chunk and the lock was released then
C39_Witness ==
    /\ parserPc = "Stopped"
    /\ lockReleases = 1
    /\ Len(yielded) = 2
    /\ releasedAt = 2
====
